---- MODULE Spec2Model ----
(***************************************************************************)
(* Dei: god-class / god-method analyser.                                   *)
(*                                                                         *)
(* The specifications of this module:                                      *)
(*   Spec         the parallel analysis engine (ParallelTraverser) over   *)
(*                the arena-backed tree, with the rayon join, the worker  *)
(*                pool and the DashMap result map;                        *)
(*   SpecLive     one call, with the fairness of the pool's scheduling;   *)
(*   SpecLocks    the workers in analyze_file_node, lock by lock;         *)
(*   SpecRepeat   the engine called again on the same store, with the     *)
(*                thresholds of each call;                                *)
(*   SpecAnalyze  the per-class evaluation analyze_class applied to       *)
(*                bounded class metrics and thresholds;                   *)
(*   SpecScore    violation_score applied to bounded methods under the    *)
(*                accepted policies;                                      *)
(*   SpecArena    threads calling alloc, get and update on one Arena      *)
(*                behind its RwLock;                                      *)
(*   SpecWalk     the depth-first walk of a tree with a Visitor;          *)
(*   SpecBuild    AstBuilder::build over a directory tree on disk;        *)
(*   SpecValidate Thresholds::validate applied to bounded policies;       *)
(*   SpecRun      one run from its entry point (check::run or the         *)
(*                harness): pre-checks, build, then the engine of Spec;   *)
(*   SpecGraph    a DependencyGraph under add_node and add_edge, with     *)
(*                its coupling and cycle queries;                         *)
(*   SpecCoupling the CouplingAnalyzer: build_graph over class metrics    *)
(*                and the architecture metrics of the graph;              *)
(*   SpecCluster  ClusteringAnalyzer::analyze applied to bounded classes  *)
(*                under every labelling the clusterer can return.         *)
(***************************************************************************)
EXTENDS Integers, Sequences, FiniteSets, TLC

\* ------------------------------------------------------------------ bounds
\* Largest number of nodes of a tree the builder has put in the store.
MaxNodes == 3
\* Largest rayon worker-pool size.
MaxWorkers == 2
\* Class metrics range over threshold - MaxDelta .. threshold + MaxDelta.
MaxDelta == 1
\* Largest number of methods of an analysed class (SpecAnalyze).
MaxMethods == 2
\* Largest number of nodes allocated in the store of SpecArena.
MaxSlots == 2
\* Largest number of store operations started in SpecArena.
MaxOps == 3
\* Largest number of filesystem entries below the root (SpecBuild).
MaxEntries == 3
\* Most edges added to a DependencyGraph (SpecGraph).
MaxEdges == 3
\* Most classes handed to build_graph (SpecCoupling).
MaxClasses == 2
\* Most methods of a class handed to the clustering analyzer (SpecCluster).
MaxClustered == 3
\* Most calls of traverse_and_analyze on one traverser (SpecRepeat).
MaxRuns == 2

\* ------------------------------------------------------------------ state
VARIABLES
    \* Spec: the engine
    nodes,        \* Arena.nodes: the Vec<Node>, handle h at position h + 1
    results,      \* ParallelTraverser.results: NodeId -> Vec<AnalysisResult>
    fs,           \* what the extractor finds on disk, by path
    thresholds,   \* the Thresholds of the running call
    poolSize,     \* number of rayon worker threads
    root_id,      \* argument of traverse_and_analyze
    pc,           \* position of the traverse_node task of each handle
    joinOf,       \* the directory whose try_for_each dispatched the task
    full,         \* TryForEachConsumer.full of each directory's join
    local,        \* locals of analyze_file_node, per task
    err,          \* the Err a finished task returned
    parses,       \* calls of parser.parse_file made for each handle
    published,    \* calls of results.insert and arena.update made for each handle
    ret,          \* what traverse_and_analyze returned
    clock,        \* SystemTime::now()
    run,          \* index of the current run
    tree0,        \* the store as the builder left it
    before,       \* the store when the current call started
    prev,         \* outcome of the previous run
    \* SpecAnalyze: analyze_class as a function
    aclass,       \* the ClassMetrics analysed
    athresholds,  \* the Thresholds it was analysed under
    aresult,      \* the AnalysisResult returned
    \* SpecArena: one Arena shared by threads
    arena,        \* Arena.nodes: the Vec<Node> behind the RwLock
    writer,       \* the thread holding the write lock, or 0
    readers,      \* the threads holding the read lock
    tpc,          \* the call each thread is in
    targ,         \* the arguments and locals of that call
    snap,         \* the last value get returned to each thread
    snapAt,       \* the handle of that get and the store it read
    allocLog,     \* the handles alloc has returned, in order
    lastWrite,    \* the last write to the store and the store before it
    ops,          \* number of calls started
    \* SpecWalk: walk with a visitor
    warena,       \* the store walked
    start,        \* node_id of the outermost walk call
    stack,        \* the nested walk calls, innermost last
    visits,       \* the visitor callbacks invoked so far, in order
    wret,         \* what the outermost walk returned
    failure,      \* the first Err raised, and where
    \* SpecBuild: AstBuilder over a directory tree on disk
    bdisk,        \* the root path, what is at it, and the entries below it
    patterns,     \* AstBuilder.ignore_patterns
    barena,       \* AstBuilder.arena
    bret,         \* what build returned
    \* SpecValidate: Thresholds::validate as a function
    vpolicy,      \* the Thresholds validated
    vresult,      \* what validate returned
    \* SpecRun: one analysis run from its entry point
    entry,        \* the entry point: check::run or TestHarness::analyze_path
    rstage,       \* how far the entry point has got
    root_exists,  \* whether the path given exists
    checks,       \* how often each pre-check has been made
    rret,         \* what the entry point returned
    \* SpecGraph: a DependencyGraph
    dg,           \* DependencyGraph: graph (nodes, edges) and node_map
    report,       \* the last query made of it and its result
    \* SpecCluster: ClusteringAnalyzer::analyze as a function
    kclass,       \* the ClassMetrics analysed
    kpolicy,      \* the Thresholds of the call
    klabels,      \* what DbscanClusterer::cluster returned, one label a method
    kresult,      \* what analyze returned
    \* SpecLocks: the workers of the pool in analyze_file_node, lock by lock
    store,        \* Arena.nodes: the Vec<Node> behind the RwLock
    storeWriter,  \* the worker holding the store's write lock, or 0
    storeReaders, \* the workers holding the store's read lock
    resultMap,    \* ParallelTraverser.results
    mapLock,      \* the worker holding the map's shard lock, or 0
    tdisk,        \* what the extractor finds on disk, by path
    taken,        \* the handles whose task a worker has taken
    wpc,          \* where each worker is in its task
    wlocal        \* the locals of that task

engineVars == <<nodes, results, fs, thresholds, poolSize, root_id, pc, joinOf,
                full, local, err, parses, published, ret, clock, run, tree0, before, prev>>
analyzeVars == <<aclass, athresholds, aresult>>
arenaVars == <<arena, writer, readers, tpc, targ, snap, snapAt, allocLog,
              lastWrite, ops>>
walkVars == <<warena, start, stack, visits, wret, failure>>
buildVars == <<bdisk, patterns, barena, bret>>
validateVars == <<vpolicy, vresult>>
runVars == <<entry, rstage, root_exists, checks, rret>>
graphVars == <<dg, report>>
clusterVars == <<kclass, kpolicy, klabels, kresult>>
lockVars == <<store, storeWriter, storeReaders, resultMap, mapLock, tdisk, taken,
             wpc, wlocal>>
vars == <<engineVars, analyzeVars, arenaVars, walkVars, buildVars, validateVars,
          runVars, graphVars, clusterVars, lockVars>>

\* What the actions of one specification leave alone.
offEngine == <<analyzeVars, arenaVars, walkVars, buildVars, validateVars, runVars,
              graphVars, clusterVars, lockVars>>
offAnalyze == <<engineVars, arenaVars, walkVars, buildVars, validateVars, runVars,
              graphVars, clusterVars, lockVars>>
offArena == <<engineVars, analyzeVars, walkVars, buildVars, validateVars, runVars,
              graphVars, clusterVars, lockVars>>
offWalk == <<engineVars, analyzeVars, arenaVars, buildVars, validateVars, runVars,
              graphVars, clusterVars, lockVars>>
offBuild == <<engineVars, analyzeVars, arenaVars, walkVars, validateVars, runVars,
              graphVars, clusterVars, lockVars>>
offValidate == <<engineVars, analyzeVars, arenaVars, walkVars, buildVars, runVars,
              graphVars, clusterVars, lockVars>>
offRun == <<analyzeVars, arenaVars, walkVars, buildVars, validateVars, graphVars, clusterVars, lockVars>>
offGraph == <<engineVars, analyzeVars, arenaVars, walkVars, buildVars, validateVars,
              runVars, clusterVars, lockVars>>
offCluster == <<engineVars, analyzeVars, arenaVars, walkVars, buildVars, validateVars,
                runVars, graphVars, lockVars>>
offLocks == <<engineVars, analyzeVars, arenaVars, walkVars, buildVars, validateVars,
              runVars, graphVars, clusterVars>>

\* Option<T>: None is the empty sequence, Some(x) the one-element sequence.
None == <<>>
Some(x) == <<x>>

\* ------------------------------------------------------------- thresholds
DefaultMaxClassLines == 300
DefaultMaxMethods == 20
DefaultMaxClassComplexity == 50
DefaultMaxMethodLines == 50
DefaultMaxMethodComplexity == 10
DefaultMaxParameters == 5
DefaultMaxClassesPerFile == 3
DefaultMaxFileLines == 500
DefaultMinClusterSize == 3
\* cluster_threshold: 0.7, in tenths
DefaultClusterThresholdTenths == 7

\* f64 values: a finite number of tenths, or NaN.
F64(tenths) == [nan |-> FALSE, tenths |-> tenths]
NaN == [nan |-> TRUE, tenths |-> 0]

\* The f64 comparison `a < b`: false whenever an operand is NaN.
f64_lt(a, b) == ~a.nan /\ ~b.nan /\ a.tenths < b.tenths

\* Thresholds::default()
DefaultThresholds ==
    [max_class_lines |-> DefaultMaxClassLines,
     max_methods |-> DefaultMaxMethods,
     max_class_complexity |-> DefaultMaxClassComplexity,
     max_method_lines |-> DefaultMaxMethodLines,
     max_method_complexity |-> DefaultMaxMethodComplexity,
     max_parameters |-> DefaultMaxParameters,
     max_classes_per_file |-> DefaultMaxClassesPerFile,
     max_file_lines |-> DefaultMaxFileLines,
     min_cluster_size |-> DefaultMinClusterSize,
     cluster_threshold |-> F64(DefaultClusterThresholdTenths)]

\* A stricter policy, as the ThresholdBuilder of the harness produces.
StrictThresholds ==
    [max_class_lines |-> 4,
     max_methods |-> 2,
     max_class_complexity |-> 3,
     max_method_lines |-> 2,
     max_method_complexity |-> 1,
     max_parameters |-> 1,
     max_classes_per_file |-> 1,
     max_file_lines |-> 6,
     min_cluster_size |-> DefaultMinClusterSize,
     cluster_threshold |-> F64(DefaultClusterThresholdTenths)]

ThresholdChoices == {DefaultThresholds, StrictThresholds}

\* Result<(), String>
ValidateOk == [ok |-> TRUE]
ValidateErr(message) == [ok |-> FALSE, error |-> [type |-> "String", message |-> message]]

\* Thresholds::validate
validate(t) ==
    IF t.max_class_lines < t.max_method_lines
    THEN ValidateErr("max_class_lines must be >= max_method_lines")
    ELSE IF f64_lt(t.cluster_threshold, F64(0)) \/ f64_lt(F64(10), t.cluster_threshold)
    THEN ValidateErr("cluster_threshold must be between 0.0 and 1.0")
    ELSE IF t.min_cluster_size < 2
    THEN ValidateErr("min_cluster_size must be >= 2")
    ELSE ValidateOk

\* ---------------------------------------------------------------- metrics
\* MethodMetrics::is_god_method
is_god_method(m, t) ==
    \/ m.lines > t.max_method_lines
    \/ m.complexity > t.max_method_complexity
    \/ m.parameters > t.max_parameters

\* The f64 division x as f64 / max as f64 of two usize: a finite quotient,
\* +inf for x / 0 with x > 0, NaN for 0 / 0.
ratio_kind(x, max) ==
    IF max # 0 THEN "finite" ELSE IF x # 0 THEN "inf" ELSE "NaN"

\* The f64 sum of non-negative terms: NaN if a term is NaN, else +inf if a
\* term is +inf.
sum_kind(kinds) ==
    IF "NaN" \in kinds THEN "NaN" ELSE IF "inf" \in kinds THEN "inf" ELSE "finite"

\* MethodMetrics::violation_score: `value` tells whether the f64 is finite,
\* +inf or NaN; a finite one is the exact fraction
\* (l/ml + c/mc + p/mp) / 3 = num / den.
violation_score(m, t) ==
    [value |-> sum_kind({ratio_kind(m.lines, t.max_method_lines),
                         ratio_kind(m.complexity, t.max_method_complexity),
                         ratio_kind(m.parameters, t.max_parameters)}),
     num |-> m.lines * t.max_method_complexity * t.max_parameters
             + m.complexity * t.max_method_lines * t.max_parameters
             + m.parameters * t.max_method_lines * t.max_method_complexity,
     den |-> 3 * t.max_method_lines * t.max_method_complexity * t.max_parameters]

is_god_class_nonstrict(c, t) ==
    \/ c.lines >= t.max_class_lines
    \/ c.method_count >= t.max_methods
    \/ c.complexity >= t.max_class_complexity

\* ClassMetrics::is_god_class
is_god_class(c, t) ==
    \/ c.lines > t.max_class_lines
    \/ c.method_count > t.max_methods
    \/ c.complexity > t.max_class_complexity

\* ClassMetrics::god_method_count
god_method_count(c, t) ==
    Len(SelectSeq(c.methods, LAMBDA m : is_god_method(m, t)))

\* FileMetrics::is_god_file
is_god_file(f, t) ==
    \/ Len(f.classes) > t.max_classes_per_file
    \/ f.lines > t.max_file_lines

\* ----------------------------------------------------------------- models
Violation(kind, actual, threshold) ==
    [kind |-> kind, actual |-> actual, threshold |-> threshold]

\* AnalysisResult::healthy
healthy(metrics, now) ==
    [class_metrics |-> metrics,
     is_god_class |-> FALSE,
     suggested_extractions |-> <<>>,
     god_methods |-> <<>>,
     analyzed_at |-> now,
     summary |-> <<"within acceptable thresholds", metrics.name>>]

\* AnalysisResult::has_issues
has_issues(r) == r.is_god_class \/ r.god_methods # <<>>

\* Language::from_extension
from_extension(ext) ==
    CASE ext = "rs" -> Some("Rust")
      [] ext = "cs" -> Some("CSharp")
      [] ext = "py" -> Some("Python")
      [] ext = "js" -> Some("JavaScript")
      [] ext = "ts" -> Some("TypeScript")
      [] ext = "go" -> Some("Go")
      [] ext = "java" -> Some("Java")
      [] OTHER -> None

\* ------------------------------------------------------ analysis of a class
create_god_method_result_first_only(method, class, t) ==
    [method_name |-> method.name,
     class_name |-> class.name,
     file_path |-> class.file_path,
     metrics |-> method,
     violations |->
        IF method.lines > t.max_method_lines
        THEN <<Violation("Lines", method.lines, t.max_method_lines)>>
        ELSE IF method.complexity > t.max_method_complexity
        THEN <<Violation("Complexity", method.complexity, t.max_method_complexity)>>
        ELSE IF method.parameters > t.max_parameters
        THEN <<Violation("ParameterCount", method.parameters, t.max_parameters)>>
        ELSE <<>>,
     violation_score |-> violation_score(method, t)]

\* ParallelTraverser::create_god_method_result
create_god_method_result(method, class, t) ==
    [method_name |-> method.name,
     class_name |-> class.name,
     file_path |-> class.file_path,
     metrics |-> method,
     violations |->
        (IF method.lines > t.max_method_lines
         THEN <<Violation("Lines", method.lines, t.max_method_lines)>>
         ELSE <<>>)
        \o (IF method.complexity > t.max_method_complexity
            THEN <<Violation("Complexity", method.complexity, t.max_method_complexity)>>
            ELSE <<>>)
        \o (IF method.parameters > t.max_parameters
            THEN <<Violation("ParameterCount", method.parameters, t.max_parameters)>>
            ELSE <<>>),
     violation_score |-> violation_score(method, t)]

\* The god_methods of analyze_class: filter(is_god_method).map(create_...).
GodMethodsOf(class, t) ==
    LET god == SelectSeq(class.methods, LAMBDA m : is_god_method(m, t))
    IN  [i \in 1..Len(god) |-> create_god_method_result(god[i], class, t)]

analyze_class_healthy_test_only_class(class, t, now) ==
    IF ~is_god_class(class, t)
    THEN healthy(class, now)
    ELSE [class_metrics |-> class,
          is_god_class |-> is_god_class(class, t),
          suggested_extractions |-> <<>>,
          god_methods |-> GodMethodsOf(class, t),
          analyzed_at |-> now,
          summary |-> <<"God class detected", class.name, class.lines,
                        class.method_count, class.complexity>>]

analyze_class_order_dependent(class, t, now) ==
    [class_metrics |-> class,
     is_god_class |-> is_god_class(class, t),
     suggested_extractions |-> <<>>,
     god_methods |-> GodMethodsOf(class, t),
     analyzed_at |-> now,
     summary |-> <<"analysed after", Cardinality(DOMAIN results)>>]

\* ParallelTraverser::analyze_class
analyze_class(class, t, now) ==
    IF ~is_god_class(class, t) /\ god_method_count(class, t) = 0
    THEN healthy(class, now)
    ELSE [class_metrics |-> class,
          is_god_class |-> is_god_class(class, t),
          suggested_extractions |-> <<>>,
          god_methods |-> GodMethodsOf(class, t),
          analyzed_at |-> now,
          summary |->
             IF is_god_class(class, t)
             THEN <<"God class detected", class.name, class.lines,
                    class.method_count, class.complexity>>
             ELSE <<"has god method(s)", class.name,
                    Len(GodMethodsOf(class, t))>>]

\* ParallelTraverser::create_god_file_result
create_god_file_result(file_metrics, t) ==
    [file_path |-> file_metrics.path,
     class_count |-> Len(file_metrics.classes),
     total_lines |-> file_metrics.lines,
     class_names |-> [i \in 1..Len(file_metrics.classes) |->
                        file_metrics.classes[i].name],
     violations |->
        (IF Len(file_metrics.classes) > t.max_classes_per_file
         THEN <<Violation("ClassesPerFile", Len(file_metrics.classes),
                          t.max_classes_per_file)>>
         ELSE <<>>)
        \o (IF file_metrics.lines > t.max_file_lines
            THEN <<Violation("Lines", file_metrics.lines, t.max_file_lines)>>
            ELSE <<>>)]

\* ------------------------------------------------------------ SpecAnalyze
\* Inputs of analyze_class: metrics placed around the thresholds they are
\* compared with, so that below, at and above each boundary all occur.
Around(v) == {x \in (v - MaxDelta)..(v + MaxDelta) : x >= 0}

\* A method that sits at (FALSE) or just above (TRUE) each method threshold.
MethodAt(i, over, t) ==
    [name |-> <<"method", i>>,
     lines |-> t.max_method_lines + (IF over[1] THEN 1 ELSE 0),
     complexity |-> t.max_method_complexity + (IF over[2] THEN 1 ELSE 0),
     parameters |-> t.max_parameters + (IF over[3] THEN 1 ELSE 0)]

MethodSeqs(t) ==
    UNION {{[i \in 1..n |-> MethodAt(i, o[i], t)] :
            o \in [1..n -> BOOLEAN \X BOOLEAN \X BOOLEAN]} : n \in 0..MaxMethods}

ClassOf(name, lines, method_count, complexity, methods) ==
    [name |-> name,
     file_path |-> "/test.rs",
     lines |-> lines,
     method_count |-> method_count,
     complexity |-> complexity,
     methods |-> methods]

\* test_god_class_detection: 500 lines, 30 methods, complexity 80.
GodClassOfTest == ClassOf("GodClass", 500, 30, 80, <<>>)

ClassInputs(t) ==
    {ClassOf("C", l, n, c, ms) :
        l \in Around(t.max_class_lines), n \in Around(t.max_methods),
        c \in Around(t.max_class_complexity), ms \in MethodSeqs(t)}
    \cup {GodClassOfTest}

AnalyzeInit ==
    /\ aclass = None
    /\ athresholds \in ThresholdChoices
    /\ aresult = None

\* One call of analyze_class on a class under the policy.
AnalyzeClass ==
    /\ aresult = None
    /\ \E c \in ClassInputs(athresholds) :
        /\ aclass' = Some(c)
        /\ aresult' = Some(analyze_class(c, athresholds, 0))
        /\ UNCHANGED athresholds
    /\ UNCHANGED offAnalyze

\* The caller takes the result and moves on, possibly to another policy.
NextClass ==
    /\ aresult # None
    /\ aclass' = None
    /\ aresult' = None
    /\ athresholds' \in ThresholdChoices
    /\ UNCHANGED offAnalyze

EngineIdle ==
    /\ nodes = <<>> /\ results = <<>> /\ fs = <<>>
    /\ thresholds = DefaultThresholds /\ poolSize = 1 /\ root_id = 0
    /\ pc = <<>> /\ joinOf = <<>> /\ full = <<>> /\ local = <<>> /\ err = <<>>
    /\ parses = <<>> /\ published = <<>>
    /\ ret = None /\ clock = 0 /\ run = 0
    /\ tree0 = <<>> /\ before = <<>> /\ prev = None

AnalyzeIdle == aclass = None /\ athresholds = DefaultThresholds /\ aresult = None

ArenaIdle ==
    /\ arena = <<>> /\ writer = 0 /\ readers = {}
    /\ tpc = <<>> /\ targ = <<>> /\ snap = <<>> /\ snapAt = <<>>
    /\ allocLog = <<>> /\ lastWrite = None /\ ops = 0

WalkIdle ==
    /\ warena = <<>> /\ start = 0 /\ stack = <<>> /\ visits = <<>>
    /\ wret = None /\ failure = None

BuildIdle == bdisk = <<>> /\ patterns = <<>> /\ barena = <<>> /\ bret = None

ValidateIdle == vpolicy = DefaultThresholds /\ vresult = None

RunIdle ==
    /\ entry = "" /\ rstage = "" /\ root_exists = TRUE
    /\ checks = <<>> /\ rret = None

GraphIdle == dg = <<>> /\ report = None

ClusterIdle ==
    kclass = None /\ kpolicy = DefaultThresholds /\ klabels = None /\ kresult = None

LocksIdle ==
    /\ store = <<>> /\ storeWriter = 0 /\ storeReaders = {}
    /\ resultMap = <<>> /\ mapLock = 0 /\ tdisk = <<>> /\ taken = {}
    /\ wpc = <<>> /\ wlocal = <<>>

LibIdle ==
    /\ AnalyzeIdle /\ ArenaIdle /\ WalkIdle /\ BuildIdle /\ ValidateIdle
    /\ GraphIdle /\ ClusterIdle /\ LocksIdle

\* The parts of the state a specification does not use stay as constructed.
IdleOffEngine == LibIdle /\ RunIdle
IdleOffAnalyze ==
    /\ EngineIdle /\ ArenaIdle /\ WalkIdle /\ BuildIdle /\ ValidateIdle
    /\ RunIdle /\ GraphIdle /\ ClusterIdle /\ LocksIdle
IdleOffArena ==
    /\ EngineIdle /\ AnalyzeIdle /\ WalkIdle /\ BuildIdle /\ ValidateIdle
    /\ RunIdle /\ GraphIdle /\ ClusterIdle /\ LocksIdle
IdleOffWalk ==
    /\ EngineIdle /\ AnalyzeIdle /\ ArenaIdle /\ BuildIdle /\ ValidateIdle
    /\ RunIdle /\ GraphIdle /\ ClusterIdle /\ LocksIdle
IdleOffBuild ==
    /\ EngineIdle /\ AnalyzeIdle /\ ArenaIdle /\ WalkIdle /\ ValidateIdle
    /\ RunIdle /\ GraphIdle /\ ClusterIdle /\ LocksIdle
IdleOffValidate ==
    /\ EngineIdle /\ AnalyzeIdle /\ ArenaIdle /\ WalkIdle /\ BuildIdle
    /\ RunIdle /\ GraphIdle /\ ClusterIdle /\ LocksIdle
IdleOffRun == LibIdle
IdleOffGraph ==
    /\ EngineIdle /\ AnalyzeIdle /\ ArenaIdle /\ WalkIdle /\ BuildIdle
    /\ ValidateIdle /\ RunIdle /\ ClusterIdle /\ LocksIdle
IdleOffCluster ==
    /\ EngineIdle /\ AnalyzeIdle /\ ArenaIdle /\ WalkIdle /\ BuildIdle
    /\ ValidateIdle /\ RunIdle /\ GraphIdle /\ LocksIdle
IdleOffLocks ==
    /\ EngineIdle /\ AnalyzeIdle /\ ArenaIdle /\ WalkIdle /\ BuildIdle
    /\ ValidateIdle /\ RunIdle /\ GraphIdle /\ ClusterIdle

InitAnalyze == AnalyzeInit /\ IdleOffAnalyze

NextAnalyze == AnalyzeClass \/ NextClass

SpecAnalyze == InitAnalyze /\ [][NextAnalyze]_vars

\* -------------------------------------------------------------- SpecScore
\* MethodMetrics::violation_score applied to bounded methods under the
\* policies the engine accepts; aclass holds the method scored and aresult
\* its score.
ScorePolicies ==
    {t \in {[DefaultThresholds EXCEPT !.max_method_lines = ml,
                                      !.max_method_complexity = mc,
                                      !.max_parameters = mp] :
                ml \in {0, 2, DefaultMaxMethodLines},
                mc \in {0, 1, DefaultMaxMethodComplexity},
                mp \in {0, 1, DefaultMaxParameters}} :
        validate(t).ok}

ScoredMethods(t) ==
    {[name |-> <<"method", 1>>, lines |-> l, complexity |-> c, parameters |-> p] :
        l \in Around(t.max_method_lines) \cup {0},
        c \in Around(t.max_method_complexity) \cup {0},
        p \in Around(t.max_parameters) \cup {0}}

ScoreInit ==
    /\ aclass = None
    /\ athresholds \in ScorePolicies
    /\ aresult = None

\* method.violation_score(&thresholds)
ViolationScore ==
    /\ aresult = None
    /\ \E m \in ScoredMethods(athresholds) :
        /\ aclass' = Some(m)
        /\ aresult' = Some(violation_score(m, athresholds))
    /\ UNCHANGED athresholds
    /\ UNCHANGED offAnalyze

InitScore == ScoreInit /\ IdleOffAnalyze

NextScore == ViolationScore

SpecScore == InitScore /\ [][NextScore]_vars

SeqRange(s) == {s[i] : i \in DOMAIN s}

\* ------------------------------------------------------------------- node
\* Node::new_directory / Node::new_file, with the parent and the children
\* the builder wires in.
NewNode(id, kind, path, depth, parent, children) ==
    [id |-> id,
     kind |-> kind,
     path |-> path,
     name |-> path,
     depth |-> depth,
     parent |-> parent,
     children |-> children,
     file_metrics |-> None,
     analysis_results |-> <<>>,
     god_file_result |-> None]

\* Node::is_file / Node::is_directory
is_file(node) == node.kind = "File"
is_directory(node) == node.kind = "Directory"

\* Path::extension
extension(path) == IF path.ext = "" THEN None ELSE Some(path.ext)

\* Node::language
language(node) ==
    IF ~is_file(node) THEN None
    ELSE IF extension(node.path) = None THEN None
    ELSE from_extension(extension(node.path)[1])

\* Node::with_file_metrics / with_analysis_results / with_god_file_result
with_file_metrics(node, metrics) == [node EXCEPT !.file_metrics = Some(metrics)]
with_analysis_results_on_new_file(node, rs) ==
    [node EXCEPT !.analysis_results = rs, !.parent = None]
with_analysis_results(node, rs) == [node EXCEPT !.analysis_results = rs]
with_god_file_result(node, result) == [node EXCEPT !.god_file_result = Some(result)]

\* Node::with_children / Node::with_parent
with_children(node, children) == [node EXCEPT !.children = children]
with_parent(node, parent) == [node EXCEPT !.parent = Some(parent)]

\* ------------------------------------------------------------------ arena
\* Arena::get: a clone of the slot, taken under the read lock.
ArenaGet(ns, id) == IF id + 1 \in DOMAIN ns THEN Some(ns[id + 1]) ELSE None

ArenaUpdate_off_by_one(ns, id, node) ==
    IF id \in DOMAIN ns THEN [ns EXCEPT ![id] = node] ELSE ns

ArenaUpdate_grows(ns, id, node) ==
    IF id + 1 \in DOMAIN ns THEN [ns EXCEPT ![id + 1] = node] ELSE Append(ns, node)

\* Arena::update: replaces the slot under the write lock, if it exists.
ArenaUpdate(ns, id, node) ==
    IF id + 1 \in DOMAIN ns THEN [ns EXCEPT ![id + 1] = node] ELSE ns

\* Node::new_file / Node::new_directory: no parent, no children yet.
new_file(id, path, depth) == NewNode(id, "File", path, depth, None, <<>>)
new_directory(id, path, depth) == NewNode(id, "Directory", path, depth, None, <<>>)

ArenaAlloc_keeps_id(ns, node) ==
    [nodes |-> Append(ns, node), id |-> Len(ns)]

\* Arena::alloc under the write lock: the handle is the length of the Vec,
\* the node's id is set to it, the node is pushed.
ArenaAlloc(ns, node) ==
    LET id == Len(ns) IN
    [nodes |-> Append(ns, [node EXCEPT !.id = id]), id |-> id]

\* -------------------------------------------------------------- SpecArena
\* Threads sharing one Arena (SharedArena is an Arc<Arena>). Each call
\* takes the RwLock for its whole body: alloc and update the write lock,
\* get the read lock.
Threads == 1..MaxWorkers

\* Nodes as the callers construct them: Node::new_file(NodeId(0), path, 0).
ArenaInputs == {new_file(0, [stem |-> k, ext |-> "rs"], 0) : k \in 1..2}

NoCall == [id |-> 0, node |-> None]

ArenaInit ==
    /\ arena = <<>>
    /\ writer = 0
    /\ readers = {}
    /\ tpc = [t \in Threads |-> "idle"]
    /\ targ = [t \in Threads |-> NoCall]
    /\ snap = [t \in Threads |-> None]
    /\ snapAt = [t \in Threads |-> None]
    /\ allocLog = <<>>
    /\ lastWrite = None
    /\ ops = 0

\* self.nodes.write(): granted when nobody holds the lock.
WriteLock(t) ==
    /\ writer = 0
    /\ readers = {}
    /\ writer' = t
    /\ UNCHANGED readers

\* alloc(node): the thread takes the write lock.
AllocBegin(t) ==
    /\ tpc[t] = "idle"
    /\ ops < MaxOps
    /\ Len(arena) < MaxSlots
    /\ WriteLock(t)
    /\ \E node \in ArenaInputs :
        targ' = [targ EXCEPT ![t] = [id |-> 0, node |-> Some(node)]]
    /\ tpc' = [tpc EXCEPT ![t] = "alloc"]
    /\ ops' = ops + 1
    /\ UNCHANGED <<arena, snap, snapAt, allocLog, lastWrite>>
    /\ UNCHANGED offArena

\* alloc: the body, the guard is dropped and the handle returned.
AllocEnd(t) ==
    /\ tpc[t] = "alloc"
    /\ LET r == ArenaAlloc(arena, targ[t].node[1]) IN
        /\ arena' = r.nodes
        /\ allocLog' = Append(allocLog,
                          [thread |-> t, handle |-> r.id, len |-> Len(r.nodes),
                           stored |-> ArenaGet(r.nodes, r.id)])
        /\ lastWrite' = Some([op |-> "alloc", id |-> r.id,
                              node |-> targ[t].node[1], before |-> arena])
    /\ writer' = 0
    /\ tpc' = [tpc EXCEPT ![t] = "idle"]
    /\ targ' = [targ EXCEPT ![t] = NoCall]
    /\ UNCHANGED <<readers, snap, snapAt, ops>>
    /\ UNCHANGED offArena

\* update(id, node): any handle, allocated or not; the node is a new one
\* or the thread's last snapshot.
UpdateBegin(t) ==
    /\ tpc[t] = "idle"
    /\ ops < MaxOps
    /\ WriteLock(t)
    /\ \E id \in 0..MaxSlots, node \in ArenaInputs \cup SeqRange(snap[t]) :
        targ' = [targ EXCEPT ![t] = [id |-> id, node |-> Some(node)]]
    /\ tpc' = [tpc EXCEPT ![t] = "update"]
    /\ ops' = ops + 1
    /\ UNCHANGED <<arena, snap, snapAt, allocLog, lastWrite>>
    /\ UNCHANGED offArena

UpdateEnd(t) ==
    /\ tpc[t] = "update"
    /\ arena' = ArenaUpdate(arena, targ[t].id, targ[t].node[1])
    /\ lastWrite' = Some([op |-> "update", id |-> targ[t].id,
                          node |-> targ[t].node[1], before |-> arena])
    /\ writer' = 0
    /\ tpc' = [tpc EXCEPT ![t] = "idle"]
    /\ targ' = [targ EXCEPT ![t] = NoCall]
    /\ UNCHANGED <<readers, snap, snapAt, allocLog, ops>>
    /\ UNCHANGED offArena

\* get(id): self.nodes.read(), shared with other readers.
GetBegin(t) ==
    /\ tpc[t] = "idle"
    /\ ops < MaxOps
    /\ writer = 0
    /\ readers' = readers \cup {t}
    /\ \E id \in 0..MaxSlots :
        targ' = [targ EXCEPT ![t] = [id |-> id, node |-> None]]
    /\ tpc' = [tpc EXCEPT ![t] = "get"]
    /\ ops' = ops + 1
    /\ UNCHANGED <<arena, writer, snap, snapAt, allocLog, lastWrite>>
    /\ UNCHANGED offArena

\* get: .get(id.0).cloned(), the guard is dropped.
GetEnd(t) ==
    /\ tpc[t] = "get"
    /\ snap' = [snap EXCEPT ![t] = ArenaGet(arena, targ[t].id)]
    /\ snapAt' = [snapAt EXCEPT ![t] = Some([id |-> targ[t].id, store |-> arena])]
    /\ readers' = readers \ {t}
    /\ tpc' = [tpc EXCEPT ![t] = "idle"]
    /\ targ' = [targ EXCEPT ![t] = NoCall]
    /\ UNCHANGED <<arena, writer, allocLog, lastWrite, ops>>
    /\ UNCHANGED offArena

InitArena == ArenaInit /\ IdleOffArena

NextArena ==
    \/ \E t \in Threads : AllocBegin(t)
    \/ \E t \in Threads : AllocEnd(t)
    \/ \E t \in Threads : UpdateBegin(t)
    \/ \E t \in Threads : UpdateEnd(t)
    \/ \E t \in Threads : GetBegin(t)
    \/ \E t \in Threads : GetEnd(t)

SpecArena == InitArena /\ [][NextArena]_vars

\* ----------------------------------------------------------------- parser
\* MultiLanguageParser::detect_language
detect_language(path) ==
    IF extension(path) = None THEN None
    ELSE LET ext == extension(path)[1] IN
         CASE ext = "jsx" -> Some("JavaScript")
           [] ext = "tsx" -> Some("TypeScript")
           [] OTHER -> from_extension(ext)

\* The languages parse_file has an extractor for.
HasExtractor(lang) ==
    lang \in {"Rust", "CSharp", "Python", "JavaScript", "TypeScript", "Java",
              "Perl", "R"}

ParseOk(m) == [ok |-> TRUE, error |-> "none", metrics |-> m]
ParseErr(e) == [ok |-> FALSE, error |-> e, metrics |-> None]

\* A per-language extractor on the content found at the path: FileMetrics
\* for the path, with each class carrying the file's path.
Extract(path, content) ==
    IF content.error # "none" THEN ParseErr(content.error)
    ELSE ParseOk(Some(
            [path |-> path,
             lines |-> content.lines,
             classes |-> [i \in DOMAIN content.classes |->
                            [content.classes[i] EXCEPT !.file_path = path]]]))

\* MultiLanguageParser::parse_file
parse_file(disk, path) ==
    IF detect_language(path) = None THEN ParseErr("UnsupportedLanguage")
    ELSE IF HasExtractor(detect_language(path)[1])
         THEN Extract(path, disk[path])
         ELSE ParseErr("UnsupportedLanguage")

\* ---------------------------------------------------------- trees on disk
Method(name, lines, complexity, parameters) ==
    [name |-> name, lines |-> lines, complexity |-> complexity,
     parameters |-> parameters]

\* A file of two classes. Under the default thresholds A is healthy, B has
\* a god method and the file is no god file; under the strict ones A is a
\* god class and the file a god file (classes per file and lines).
SourceFile ==
    [error |-> "none", lines |-> 7,
     classes |-> <<ClassOf("A", 5, 2, 3, <<Method("a1", 2, 1, 1)>>),
                   ClassOf("B", 4, 2, 3, <<Method("b1", 51, 1, 1)>>)>>]

\* Source the extractor cannot parse.
Malformed == [error |-> "Parse", lines |-> 0, classes |-> <<>>]

\* What a node of the tree is: 0 a directory, otherwise a file of a flavor.
Flavors ==
    <<[ext |-> "rs", content |-> SourceFile],
      [ext |-> "java", content |-> Malformed],
      [ext |-> "go", content |-> SourceFile],
      [ext |-> "md", content |-> SourceFile]>>

PathOf(h, lab) == [stem |-> h, ext |-> IF lab[h] = 0 THEN "" ELSE Flavors[lab[h]].ext]

RECURSIVE Ancestors(_, _)
\* h and the directories above it.
Ancestors(par, h) == IF h = 0 THEN {0} ELSE {h} \cup Ancestors(par, par[h])

RECURSIVE Depth(_, _)
Depth(par, h) == IF h = 0 THEN 0 ELSE 1 + Depth(par, par[h])

RECURSIVE Ascending(_)
\* The handles of a set in allocation order.
Ascending(S) ==
    IF S = {} THEN <<>>
    ELSE LET m == CHOOSE x \in S : \A y \in S : x <= y
         IN  <<m>> \o Ascending(S \ {m})

\* AstBuilder::build_directory allocates a directory, then each entry and
\* its subtree in turn: handles are in depth-first preorder, so the parent
\* of h is h - 1 or a directory above it, and only directories have children.
BuilderShape(n, par, lab) ==
    /\ \A h \in 1..(n - 1) : par[h] < h
    /\ \A h \in 1..(n - 1) :
        /\ par[h] \in Ancestors(par, h - 1)
        /\ lab[par[h]] = 0

\* The store after AstBuilder::build; `dangling` is a directory that was
\* given one child handle the store does not hold (Node::with_children is
\* public), or -1.
BuiltTree(n, par, lab, dangling) ==
    [i \in 1..n |->
        LET h == i - 1 IN
        NewNode(h,
                IF lab[h] = 0 THEN "Directory" ELSE "File",
                PathOf(h, lab),
                Depth(par, h),
                IF h = 0 THEN None ELSE Some(par[h]),
                Ascending({c \in 1..(n - 1) : par[c] = h})
                    \o (IF dangling = h THEN <<n>> ELSE <<>>))]

DiskOf(n, lab) ==
    [p \in {PathOf(h, lab) : h \in {x \in 0..(n - 1) : lab[x] # 0}} |->
        Flavors[lab[p.stem]].content]

\* ----------------------------------------------------------------- engine
Handles == 0..Len(tree0)

NoLocal == [node |-> None, file_metrics |-> None, updated_node |-> None,
            analysis_results |-> None]

\* No results.insert and no arena.update made yet for a handle.
NoWrites == [inserts |-> 0, updates |-> 0]

\* ParallelTraverser::new over the arena of a finished build.
EngineInit ==
    \E n \in 1..MaxNodes :
    \E par \in [1..(n - 1) -> 0..(n - 1)], lab \in [0..(n - 1) -> 0..Len(Flavors)] :
    \E dangling \in {-1} \cup {h \in 0..(n - 1) : lab[h] = 0} :
        /\ BuilderShape(n, par, lab)
        /\ nodes = BuiltTree(n, par, lab, dangling)
        /\ tree0 = nodes
        /\ before = nodes
        /\ fs = DiskOf(n, lab)
        /\ results = <<>>
        /\ thresholds \in ThresholdChoices
        /\ poolSize \in 1..MaxWorkers
        /\ root_id = 0
        /\ pc = [h \in 0..n |-> "idle"]
        /\ joinOf = [h \in 0..n |-> -1]
        /\ full = [h \in 0..n |-> FALSE]
        /\ local = [h \in 0..n |-> NoLocal]
        /\ err = [h \in 0..n |-> "none"]
        /\ parses = [h \in 0..n |-> 0]
        /\ published = [h \in 0..n |-> NoWrites]
        /\ ret = None
        /\ clock = 0
        /\ run = 1
        /\ prev = None

\* Tasks a worker thread of the pool is executing. The root task runs on
\* the caller's thread; a task blocked in a join lends its worker to others.
Running == {"parse", "reget", "insert", "update"}
Active == {h \in Handles : h # root_id /\ pc[h] \in Running}
Finished == {"ok", "err", "skipped"}

\* A task returns Err(e): its consumer sets the `full` flag of the join.
Fail(h, e) ==
    /\ pc' = [pc EXCEPT ![h] = "err"]
    /\ err' = [err EXCEPT ![h] = e]
    /\ full' = IF joinOf[h] = -1 THEN full ELSE [full EXCEPT ![joinOf[h]] = TRUE]
    /\ local' = [local EXCEPT ![h] = NoLocal]

\* traverse_and_analyze: the caller enters traverse_node(root_id).
Call ==
    /\ ret = None
    /\ pc[root_id] = "idle"
    /\ pc' = [pc EXCEPT ![root_id] = "start"]
    /\ before' = nodes
    /\ UNCHANGED <<nodes, results, fs, thresholds, poolSize, root_id, joinOf,
                   full, local, err, ret, clock, run, parses, published, tree0, prev>>
    /\ UNCHANGED offEngine

\* traverse_node: get the node, dispatch on its kind. A directory hands
\* its children to par_iter().try_for_each and blocks in the join.
traverse_node(h) ==
    LET g == ArenaGet(nodes, h) IN
    IF g = None
    THEN /\ Fail(h, "Analysis")
         /\ UNCHANGED joinOf
    ELSE LET node == g[1] IN
         IF is_file(node)
         THEN IF language(node) = None
              THEN /\ pc' = [pc EXCEPT ![h] = "ok"]
                   /\ UNCHANGED <<joinOf, full, local, err>>
              ELSE /\ pc' = [pc EXCEPT ![h] = "parse"]
                   /\ local' = [local EXCEPT ![h].node = Some(node)]
                   /\ UNCHANGED <<joinOf, full, err>>
         ELSE /\ pc' = [c \in Handles |->
                         IF c = h THEN "join"
                         ELSE IF c \in SeqRange(node.children) THEN "pending"
                         ELSE pc[c]]
              /\ joinOf' = [c \in Handles |->
                             IF c \in SeqRange(node.children) THEN h
                             ELSE joinOf[c]]
              /\ full' = [full EXCEPT ![h] = FALSE]
              /\ UNCHANGED <<local, err>>

\* The caller's thread runs traverse_node(root_id).
TraverseRoot ==
    /\ pc[root_id] = "start"
    /\ traverse_node(root_id)
    /\ UNCHANGED <<nodes, results, fs, thresholds, poolSize, root_id, ret,
                   clock, run, parses, published, tree0, before, prev>>
    /\ UNCHANGED offEngine

\* The items of c's join that come before c in the directory's children.
EarlierSiblings(c) ==
    LET children == nodes[joinOf[c] + 1].children IN
    {children[i] : i \in {j \in DOMAIN children :
                            \E k \in DOMAIN children : j < k /\ children[k] = c}}

Dispatch_join_holds_worker(c) ==
    /\ pc[c] = "pending"
    /\ ~full[joinOf[c]]
    /\ Cardinality(Active \cup {h \in Handles : h # root_id /\ pc[h] = "join"})
          < poolSize
    /\ poolSize = 1 => \A s \in EarlierSiblings(c) : pc[s] \in Finished
    /\ traverse_node(c)
    /\ UNCHANGED <<nodes, results, fs, thresholds, poolSize, root_id, ret,
                   clock, run, parses, published, tree0, before, prev>>
    /\ UNCHANGED offEngine

\* A worker takes the next item of a join that is not full and runs
\* traverse_node on it. A pool of one thread has nobody to steal from it:
\* it takes the items in order, each after the one before has returned.
Dispatch(c) ==
    /\ pc[c] = "pending"
    /\ ~full[joinOf[c]]
    /\ Cardinality(Active) < poolSize
    /\ poolSize = 1 => \A s \in EarlierSiblings(c) : pc[s] \in Finished
    /\ traverse_node(c)
    /\ UNCHANGED <<nodes, results, fs, thresholds, poolSize, root_id, ret,
                   clock, run, parses, published, tree0, before, prev>>
    /\ UNCHANGED offEngine

\* The join is full (an item returned Err): items not started are dropped.
Skip(c) ==
    /\ pc[c] = "pending"
    /\ full[joinOf[c]]
    /\ pc' = [pc EXCEPT ![c] = "skipped"]
    /\ UNCHANGED <<nodes, results, fs, thresholds, poolSize, root_id, joinOf,
                   full, local, err, ret, clock, run, parses, published, tree0, before, prev>>
    /\ UNCHANGED offEngine

\* analyze_file_node: self.parser.parse_file(path)?, no lock held.
ParseFile(h) ==
    /\ pc[h] = "parse"
    /\ parses' = [parses EXCEPT ![h] = @ + 1]
    /\ UNCHANGED published
    /\ LET r == parse_file(fs, local[h].node[1].path) IN
       IF r.ok
       THEN /\ pc' = [pc EXCEPT ![h] = "reget"]
            /\ local' = [local EXCEPT ![h].file_metrics = r.metrics]
            /\ UNCHANGED <<full, err>>
       ELSE Fail(h, r.error)
    /\ UNCHANGED <<nodes, results, fs, thresholds, poolSize, root_id, joinOf,
                   ret, clock, run, tree0, before, prev>>
    /\ UNCHANGED offEngine

\* analyze_file_node: the second arena.get, the god-file verdict and the
\* analysis of each class, all on the task's own copy.
Reget(h) ==
    /\ pc[h] = "reget"
    /\ LET g == ArenaGet(nodes, local[h].node[1].id)
           fm == local[h].file_metrics[1]
       IN  IF g = None
           THEN /\ pc' = [pc EXCEPT ![h] = "ok"]
                /\ local' = [local EXCEPT ![h] = NoLocal]
           ELSE LET n1 == with_file_metrics(g[1], fm)
                    n2 == IF is_god_file(fm, thresholds)
                          THEN with_god_file_result(n1,
                                   create_god_file_result(fm, thresholds))
                          ELSE n1
                IN  /\ pc' = [pc EXCEPT ![h] = "insert"]
                    /\ local' = [local EXCEPT
                          ![h].updated_node = Some(n2),
                          ![h].analysis_results =
                              Some([i \in DOMAIN fm.classes |->
                                   analyze_class(fm.classes[i], thresholds, clock)])]
    /\ UNCHANGED <<nodes, results, fs, thresholds, poolSize, root_id, joinOf,
                   full, err, ret, clock, run, parses, published, tree0, before, prev>>
    /\ UNCHANGED offEngine

\* DashMap::insert
MapInsert(map, key, value) ==
    [k \in DOMAIN map \cup {key} |-> IF k = key THEN value ELSE map[k]]

Insert_keeps_first_result(h) ==
    /\ pc[h] = "insert"
    /\ results' = MapInsert(results, local[h].node[1].id,
                            SubSeq(local[h].analysis_results[1], 1, 1))
    /\ published' = [published EXCEPT ![local[h].node[1].id].inserts = @ + 1]
    /\ pc' = [pc EXCEPT ![h] = "update"]
    /\ UNCHANGED <<nodes, fs, thresholds, poolSize, root_id, joinOf, full,
                   local, err, ret, clock, run, parses, tree0, before, prev>>
    /\ UNCHANGED offEngine

\* analyze_file_node: self.results.insert(node.id, analysis_results.clone())
Insert(h) ==
    /\ pc[h] = "insert"
    /\ results' = MapInsert(results, local[h].node[1].id,
                            local[h].analysis_results[1])
    /\ published' = [published EXCEPT ![local[h].node[1].id].inserts = @ + 1]
    /\ pc' = [pc EXCEPT ![h] = "update"]
    /\ UNCHANGED <<nodes, fs, thresholds, poolSize, root_id, joinOf, full,
                   local, err, ret, clock, run, parses, tree0, before, prev>>
    /\ UNCHANGED offEngine

Update_writes_twice(h) ==
    /\ pc[h] = "update"
    /\ nodes' = ArenaUpdate(nodes, local[h].node[1].id,
                    with_analysis_results(local[h].updated_node[1],
                                          local[h].analysis_results[1]))
    /\ published' = [published EXCEPT ![local[h].node[1].id].updates = @ + 1]
    /\ IF published[local[h].node[1].id].updates = 0
       THEN UNCHANGED <<pc, local>>
       ELSE /\ pc' = [pc EXCEPT ![h] = "ok"]
            /\ local' = [local EXCEPT ![h] = NoLocal]
    /\ UNCHANGED <<results, fs, thresholds, poolSize, root_id, joinOf, full,
                   err, ret, clock, run, parses, tree0, before, prev>>
    /\ UNCHANGED offEngine

\* analyze_file_node: self.arena.update(node.id, updated_node), then Ok(()).
Update(h) ==
    /\ pc[h] = "update"
    /\ nodes' = ArenaUpdate(nodes, local[h].node[1].id,
                    with_analysis_results(local[h].updated_node[1],
                                          local[h].analysis_results[1]))
    /\ published' = [published EXCEPT ![local[h].node[1].id].updates = @ + 1]
    /\ pc' = [pc EXCEPT ![h] = "ok"]
    /\ local' = [local EXCEPT ![h] = NoLocal]
    /\ UNCHANGED <<results, fs, thresholds, poolSize, root_id, joinOf, full,
                   err, ret, clock, run, parses, tree0, before, prev>>
    /\ UNCHANGED offEngine

ChildrenOf(p) == {c \in Handles : joinOf[c] = p}

JoinReturn_swallows_error(p) ==
    /\ pc[p] = "join"
    /\ \A c \in ChildrenOf(p) : pc[c] \in Finished
    /\ pc' = [pc EXCEPT ![p] = "ok"]
    /\ UNCHANGED <<full, local, err>>
    /\ UNCHANGED <<nodes, results, fs, thresholds, poolSize, root_id, joinOf,
                   ret, clock, run, parses, published, tree0, before, prev>>
    /\ UNCHANGED offEngine

JoinReturn_no_barrier(p) ==
    /\ pc[p] = "join"
    /\ \A c \in ChildrenOf(p) : pc[c] # "pending"
    /\ IF \E c \in ChildrenOf(p) : pc[c] = "err"
       THEN \E c \in ChildrenOf(p) :
               /\ pc[c] = "err"
               /\ Fail(p, err[c])
       ELSE /\ pc' = [pc EXCEPT ![p] = "ok"]
            /\ UNCHANGED <<full, local, err>>
    /\ UNCHANGED <<nodes, results, fs, thresholds, poolSize, root_id, joinOf,
                   ret, clock, run, parses, published, tree0, before, prev>>
    /\ UNCHANGED offEngine

\* traverse_directory: try_for_each returns once every item has finished
\* or was dropped; `?` passes on an item's Err.
JoinReturn(p) ==
    /\ pc[p] = "join"
    /\ \A c \in ChildrenOf(p) : pc[c] \in Finished
    /\ IF \E c \in ChildrenOf(p) : pc[c] = "err"
       THEN \E c \in ChildrenOf(p) :
               /\ pc[c] = "err"
               /\ Fail(p, err[c])
       ELSE /\ pc' = [pc EXCEPT ![p] = "ok"]
            /\ UNCHANGED <<full, local, err>>
    /\ UNCHANGED <<nodes, results, fs, thresholds, poolSize, root_id, joinOf,
                   ret, clock, run, parses, published, tree0, before, prev>>
    /\ UNCHANGED offEngine

Return_discards_on_error ==
    /\ ret = None
    /\ pc[root_id] \in {"ok", "err"}
    /\ ret' = Some([ok |-> pc[root_id] = "ok", error |-> err[root_id]])
    /\ results' = IF pc[root_id] = "ok" THEN results ELSE <<>>
    /\ UNCHANGED <<nodes, fs, thresholds, poolSize, root_id, pc, joinOf,
                   full, local, err, clock, run, parses, published, tree0, before, prev>>
    /\ UNCHANGED offEngine

\* traverse_and_analyze returns what traverse_node(root_id) returned.
Return ==
    /\ ret = None
    /\ pc[root_id] \in {"ok", "err"}
    /\ ret' = Some([ok |-> pc[root_id] = "ok", error |-> err[root_id]])
    /\ UNCHANGED <<nodes, results, fs, thresholds, poolSize, root_id, pc, joinOf,
                   full, local, err, clock, run, parses, published, tree0, before, prev>>
    /\ UNCHANGED offEngine

\* all_results(): the results of every entry, as a collection.
AllResults(map) == UNION {SeqRange(map[k]) : k \in DOMAIN map}

\* The harness runs the analysis again on the same files: a fresh build of
\* the tree and a new traverser, under the same policy.
Rerun ==
    /\ ret # None
    /\ prev = None
    /\ prev' = Some([ret |-> ret[1], results |-> results,
                     thresholds |-> thresholds])
    /\ run' = run + 1
    /\ clock' = clock + 1
    /\ nodes' = tree0
    /\ tree0' = tree0
    /\ before' = tree0
    /\ results' = <<>>
    /\ pc' = [h \in Handles |-> "idle"]
    /\ joinOf' = [h \in Handles |-> -1]
    /\ full' = [h \in Handles |-> FALSE]
    /\ local' = [h \in Handles |-> NoLocal]
    /\ err' = [h \in Handles |-> "none"]
    /\ parses' = [h \in Handles |-> 0]
    /\ published' = [h \in Handles |-> NoWrites]
    /\ ret' = None
    /\ UNCHANGED <<fs, thresholds, poolSize, root_id>>
    /\ UNCHANGED offEngine

Init == EngineInit /\ IdleOffEngine

Next ==
    \/ Call
    \/ TraverseRoot
    \/ \E h \in Handles : Dispatch(h)
    \/ \E h \in Handles : Skip(h)
    \/ \E h \in Handles : ParseFile(h)
    \/ \E h \in Handles : Reget(h)
    \/ \E h \in Handles : Insert(h)
    \/ \E h \in Handles : Update(h)
    \/ \E h \in Handles : JoinReturn(h)
    \/ Return
    \/ Rerun

Spec == Init /\ [][Next]_vars

\* -------------------------------------------------------------- SpecLocks
\* The workers of the pool, each running traverse_node on a file of one
\* directory, with every lock they take: Arena::get holds the store's read
\* lock for its body and returns a clone, Arena::update holds the write
\* lock for its body, DashMap::insert holds the shard's lock for the call.
Workers == 1..MaxWorkers

NoTask == [id |-> 0, node |-> None, file_metrics |-> None,
           updated_node |-> None, analysis_results |-> None]

\* A directory of one to MaxNodes - 1 files, as the builder left it.
LocksInit ==
    \E n \in 2..MaxNodes : \E lab \in [0..(n - 1) -> 0..Len(Flavors)] :
        /\ lab[0] = 0
        /\ \A h \in 1..(n - 1) : lab[h] # 0
        /\ store = BuiltTree(n, [h \in 1..(n - 1) |-> 0], lab, -1)
        /\ tdisk = DiskOf(n, lab)
        /\ storeWriter = 0
        /\ storeReaders = {}
        /\ resultMap = <<>>
        /\ mapLock = 0
        /\ taken = {}
        /\ wpc = [w \in Workers |-> "idle"]
        /\ wlocal = [w \in Workers |-> NoTask]

\* self.nodes.read(): granted while nobody holds the write lock.
ReadLock(w) ==
    /\ storeWriter = 0
    /\ storeReaders' = storeReaders \cup {w}
    /\ UNCHANGED storeWriter

ReadUnlock_guard_outlives_get(w) ==
    /\ UNCHANGED storeReaders
    /\ UNCHANGED storeWriter

\* The read guard, a temporary of Arena::get, is dropped on its return.
ReadUnlock(w) ==
    /\ storeReaders' = storeReaders \ {w}
    /\ UNCHANGED storeWriter

\* traverse_node: a worker takes an item of the directory's join and
\* enters self.arena.get(node_id).
TaskGet(w) ==
    /\ wpc[w] = "idle"
    /\ \E h \in SeqRange(store[1].children) \ taken :
          /\ taken' = taken \cup {h}
          /\ wlocal' = [wlocal EXCEPT ![w] = [NoTask EXCEPT !.id = h]]
    /\ ReadLock(w)
    /\ wpc' = [wpc EXCEPT ![w] = "get"]
    /\ UNCHANGED <<store, resultMap, mapLock, tdisk>>
    /\ UNCHANGED offLocks

\* traverse_node: get returns; analyze_file_node returns Ok for a file of
\* no recognized language and otherwise calls self.parser.parse_file(path).
TaskGot(w) ==
    /\ wpc[w] = "get"
    /\ ReadUnlock(w)
    /\ LET node == ArenaGet(store, wlocal[w].id)[1] IN
       IF language(node) = None
       THEN /\ wpc' = [wpc EXCEPT ![w] = "idle"]
            /\ wlocal' = [wlocal EXCEPT ![w] = NoTask]
       ELSE /\ wpc' = [wpc EXCEPT ![w] = "parse"]
            /\ wlocal' = [wlocal EXCEPT ![w].node = Some(node)]
    /\ UNCHANGED <<store, resultMap, mapLock, tdisk, taken>>
    /\ UNCHANGED offLocks

\* analyze_file_node: parse_file returns; `?` ends the task on an Err.
TaskParsed(w) ==
    /\ wpc[w] = "parse"
    /\ LET r == parse_file(tdisk, wlocal[w].node[1].path) IN
       IF r.ok
       THEN /\ wpc' = [wpc EXCEPT ![w] = "parsed"]
            /\ wlocal' = [wlocal EXCEPT ![w].file_metrics = r.metrics]
       ELSE /\ wpc' = [wpc EXCEPT ![w] = "idle"]
            /\ wlocal' = [wlocal EXCEPT ![w] = NoTask]
    /\ UNCHANGED <<store, storeWriter, storeReaders, resultMap, mapLock, tdisk,
                   taken>>
    /\ UNCHANGED offLocks

\* analyze_file_node: enters the second self.arena.get(node.id).
TaskReget(w) ==
    /\ wpc[w] = "parsed"
    /\ ReadLock(w)
    /\ wpc' = [wpc EXCEPT ![w] = "reget"]
    /\ UNCHANGED <<store, resultMap, mapLock, tdisk, taken, wlocal>>
    /\ UNCHANGED offLocks

\* analyze_file_node: get returns; the verdicts are computed on the clone.
TaskRegot(w) ==
    /\ wpc[w] = "reget"
    /\ ReadUnlock(w)
    /\ LET g == ArenaGet(store, wlocal[w].node[1].id)
           fm == wlocal[w].file_metrics[1]
           n1 == with_file_metrics(g[1], fm)
           n2 == IF is_god_file(fm, DefaultThresholds)
                 THEN with_god_file_result(n1,
                          create_god_file_result(fm, DefaultThresholds))
                 ELSE n1
       IN  wlocal' = [wlocal EXCEPT
               ![w].updated_node = Some(n2),
               ![w].analysis_results =
                   Some([i \in DOMAIN fm.classes |->
                            analyze_class(fm.classes[i], DefaultThresholds, 0)])]
    /\ wpc' = [wpc EXCEPT ![w] = "regot"]
    /\ UNCHANGED <<store, resultMap, mapLock, tdisk, taken>>
    /\ UNCHANGED offLocks

\* analyze_file_node: enters self.results.insert, which locks the shard.
TaskInsert(w) ==
    /\ wpc[w] = "regot"
    /\ mapLock = 0
    /\ mapLock' = w
    /\ wpc' = [wpc EXCEPT ![w] = "insert"]
    /\ UNCHANGED <<store, storeWriter, storeReaders, resultMap, tdisk, taken,
                   wlocal>>
    /\ UNCHANGED offLocks

\* results.insert stores the entry and returns.
TaskInserted(w) ==
    /\ wpc[w] = "insert"
    /\ resultMap' = MapInsert(resultMap, wlocal[w].node[1].id,
                              wlocal[w].analysis_results[1])
    /\ mapLock' = 0
    /\ wpc' = [wpc EXCEPT ![w] = "inserted"]
    /\ UNCHANGED <<store, storeWriter, storeReaders, tdisk, taken, wlocal>>
    /\ UNCHANGED offLocks

\* analyze_file_node: enters self.arena.update: self.nodes.write(), granted
\* when nobody holds the lock.
TaskUpdate(w) ==
    /\ wpc[w] = "inserted"
    /\ storeWriter = 0
    /\ storeReaders = {}
    /\ storeWriter' = w
    /\ wpc' = [wpc EXCEPT ![w] = "update"]
    /\ UNCHANGED <<store, storeReaders, resultMap, mapLock, tdisk, taken, wlocal>>
    /\ UNCHANGED offLocks

\* Arena::update writes the slot and drops the guard; the task returns Ok.
TaskUpdated(w) ==
    /\ wpc[w] = "update"
    /\ store' = ArenaUpdate(store, wlocal[w].node[1].id,
                    with_analysis_results(wlocal[w].updated_node[1],
                                          wlocal[w].analysis_results[1]))
    /\ storeWriter' = 0
    /\ wpc' = [wpc EXCEPT ![w] = "idle"]
    /\ wlocal' = [wlocal EXCEPT ![w] = NoTask]
    /\ UNCHANGED <<storeReaders, resultMap, mapLock, tdisk, taken>>
    /\ UNCHANGED offLocks

InitLocks == LocksInit /\ IdleOffLocks

NextLocks ==
    \/ \E w \in Workers : TaskGet(w)
    \/ \E w \in Workers : TaskGot(w)
    \/ \E w \in Workers : TaskParsed(w)
    \/ \E w \in Workers : TaskReget(w)
    \/ \E w \in Workers : TaskRegot(w)
    \/ \E w \in Workers : TaskInsert(w)
    \/ \E w \in Workers : TaskInserted(w)
    \/ \E w \in Workers : TaskUpdate(w)
    \/ \E w \in Workers : TaskUpdated(w)

SpecLocks == InitLocks /\ [][NextLocks]_vars

\* --------------------------------------------------------------- SpecLive
\* The steps of a call once it is made. The caller's thread and the workers
\* of the pool keep running and every extractor call returns: a step of the
\* call that can be taken is eventually taken.
StepOfCall ==
    \/ TraverseRoot
    \/ \E h \in Handles : Dispatch(h)
    \/ \E h \in Handles : Skip(h)
    \/ \E h \in Handles : ParseFile(h)
    \/ \E h \in Handles : Reget(h)
    \/ \E h \in Handles : Insert(h)
    \/ \E h \in Handles : Update(h)
    \/ \E h \in Handles : JoinReturn(h)
    \/ Return

\* One call on a traverser.
NextLive == Call \/ StepOfCall

SpecLive == Init /\ [][NextLive]_vars /\ WF_vars(StepOfCall)

\* ------------------------------------------------------------- SpecRepeat
\* The caller calls traverse_and_analyze again on the same traverser, and
\* so on the same store and result map, after a call that returned Ok; the
\* thresholds are an argument of each call.
CallAgain ==
    /\ ret # None
    /\ ret[1].ok
    /\ run < MaxRuns
    /\ thresholds' \in ThresholdChoices
    /\ run' = run + 1
    /\ clock' = clock + 1
    /\ before' = nodes
    /\ pc' = [h \in Handles |-> IF h = root_id THEN "start" ELSE "idle"]
    /\ joinOf' = [h \in Handles |-> -1]
    /\ full' = [h \in Handles |-> FALSE]
    /\ local' = [h \in Handles |-> NoLocal]
    /\ err' = [h \in Handles |-> "none"]
    /\ parses' = [h \in Handles |-> 0]
    /\ published' = [h \in Handles |-> NoWrites]
    /\ ret' = None
    /\ UNCHANGED <<nodes, results, fs, poolSize, root_id, tree0, prev>>
    /\ UNCHANGED offEngine

NextRepeat ==
    \/ Call
    \/ TraverseRoot
    \/ \E h \in Handles : Dispatch(h)
    \/ \E h \in Handles : Skip(h)
    \/ \E h \in Handles : ParseFile(h)
    \/ \E h \in Handles : Reget(h)
    \/ \E h \in Handles : Insert(h)
    \/ \E h \in Handles : Update(h)
    \/ \E h \in Handles : JoinReturn(h)
    \/ Return
    \/ CallAgain

SpecRepeat == Init /\ [][NextRepeat]_vars

\* --------------------------------------------------------------- SpecWalk
\* walk(visitor, node_id, arena): a recursive function; `stack` holds its
\* activations. The visitor is any implementation of the trait: each
\* callback returns Ok or Err as it likes.
WalkError(kind, id, cb) == [kind |-> kind, id |-> id, cb |-> cb]

Frame(id) == [id |-> id, stage |-> "get", node |-> None, next |-> 1,
              result |-> None]

Top == stack[Len(stack)]
SetTop(f) == [stack EXCEPT ![Len(stack)] = f]
Returning(f, r) == [f EXCEPT !.stage = "ret", !.result = Some(r)]

Ok == [ok |-> TRUE]
Err(e) == [ok |-> FALSE, error |-> e]

\* The first Err of the walk: the error, the callbacks made by then and the
\* activations open at that moment (the failing node and those above it).
Raise(e) ==
    failure' = IF failure = None
               THEN Some([error |-> e, at |-> Len(visits'),
                          open |-> {stack[i].id : i \in DOMAIN stack}])
               ELSE failure

WalkInit ==
    \E n \in 1..MaxNodes :
    \E par \in [1..(n - 1) -> 0..(n - 1)], lab \in [0..(n - 1) -> 0..1] :
    \E dangling \in {-1} \cup {h \in 0..(n - 1) : lab[h] = 0} :
        /\ BuilderShape(n, par, lab)
        /\ warena = BuiltTree(n, par, lab, dangling)
        /\ start \in 0..n
        /\ stack = <<>>
        /\ visits = <<>>
        /\ wret = None
        /\ failure = None

\* The caller calls walk(visitor, start, arena).
WalkCall ==
    /\ stack = <<>>
    /\ wret = None
    /\ visits = <<>>
    /\ failure = None
    /\ stack' = <<Frame(start)>>
    /\ UNCHANGED <<warena, start, visits, wret, failure>>
    /\ UNCHANGED offWalk

\* arena.get(node_id).ok_or_else(..)?
WalkGet ==
    /\ stack # <<>>
    /\ Top.stage = "get"
    /\ LET g == ArenaGet(warena, Top.id) IN
       IF g = None
       THEN /\ stack' = SetTop(Returning(Top, Err(WalkError("Analysis", Top.id, "get"))))
            /\ UNCHANGED visits
            /\ Raise(WalkError("Analysis", Top.id, "get"))
       ELSE /\ stack' = SetTop([Top EXCEPT !.stage = "pre", !.node = g])
            /\ UNCHANGED <<visits, failure>>
    /\ UNCHANGED <<warena, start, wret>>
    /\ UNCHANGED offWalk

\* visitor.visit_file(&node, arena)? or visitor.visit_directory(&node, arena)?
PreVisit ==
    /\ stack # <<>>
    /\ Top.stage = "pre"
    /\ LET cb == IF is_file(Top.node[1]) THEN "visit_file" ELSE "visit_directory" IN
       \E ok \in BOOLEAN :
        /\ visits' = Append(visits, [cb |-> cb, id |-> Top.node[1].id, ok |-> ok])
        /\ IF ok
           THEN /\ stack' = SetTop([Top EXCEPT !.stage = "children", !.next = 1])
                /\ UNCHANGED failure
           ELSE /\ stack' = SetTop(Returning(Top, Err(WalkError("Visitor", Top.id, cb))))
                /\ Raise(WalkError("Visitor", Top.id, cb))
    /\ UNCHANGED <<warena, start, wret>>
    /\ UNCHANGED offWalk

ChildrenDone_early(f) == TRUE

\* The for loop over node.children has run out of children.
ChildrenDone(f) == f.next > Len(f.node[1].children)

\* for child_id in node.children.iter() { walk(visitor, *child_id, arena)
Descend ==
    /\ stack # <<>>
    /\ Top.stage = "children"
    /\ ~ChildrenDone(Top)
    /\ stack' = Append(stack, Frame(Top.node[1].children[Top.next]))
    /\ UNCHANGED <<warena, start, visits, wret, failure>>
    /\ UNCHANGED offWalk

\* visitor.visit_post(&node, arena)?; Ok(())
PostVisit ==
    /\ stack # <<>>
    /\ Top.stage = "children"
    /\ ChildrenDone(Top)
    /\ \E ok \in BOOLEAN :
        /\ visits' = Append(visits, [cb |-> "visit_post", id |-> Top.node[1].id,
                                     ok |-> ok])
        /\ IF ok
           THEN /\ stack' = SetTop(Returning(Top, Ok))
                /\ UNCHANGED failure
           ELSE /\ stack' = SetTop(Returning(Top, Err(WalkError("Visitor", Top.id, "visit_post"))))
                /\ Raise(WalkError("Visitor", Top.id, "visit_post"))
    /\ UNCHANGED <<warena, start, wret>>
    /\ UNCHANGED offWalk

Try_ignores_error(caller, r) == [caller EXCEPT !.next = @ + 1]

\* The `?` on the recursive call: an Err returns from the caller at once,
\* an Ok moves on to the next child.
Try(caller, r) ==
    IF r.ok THEN [caller EXCEPT !.next = @ + 1] ELSE Returning(caller, r)

\* A walk call returns to its caller.
WalkReturn ==
    /\ stack # <<>>
    /\ Top.stage = "ret"
    /\ IF Len(stack) = 1
       THEN /\ stack' = <<>>
            /\ wret' = Top.result
       ELSE /\ stack' = [i \in 1..(Len(stack) - 1) |->
                           IF i = Len(stack) - 1
                           THEN Try(stack[i], Top.result[1])
                           ELSE stack[i]]
            /\ UNCHANGED wret
    /\ UNCHANGED <<warena, start, visits, failure>>
    /\ UNCHANGED offWalk

InitWalk == WalkInit /\ IdleOffWalk

NextWalk ==
    \/ WalkCall
    \/ WalkGet
    \/ PreVisit
    \/ Descend
    \/ PostVisit
    \/ WalkReturn

SpecWalk == InitWalk /\ [][NextWalk]_vars

\* -------------------------------------------------------------- SpecBuild
\* File names are sequences of characters, paths sequences of names
\* (Path::components).
N_proj == <<"p", "r", "o", "j">>
N_src == <<"s", "r", "c">>
N_build == <<"b", "u", "i", "l", "d">>
N_builder_rs == <<"b", "u", "i", "l", "d", "e", "r", ".", "r", "s">>
N_main_rs == <<"m", "a", "i", "n", ".", "r", "s">>

\* AstBuilder::default_ignore_patterns
default_ignore_patterns ==
    << <<"t", "a", "r", "g", "e", "t">>,
       <<"b", "i", "n">>,
       <<"o", "b", "j">>,
       <<"n", "o", "d", "e", "_", "m", "o", "d", "u", "l", "e", "s">>,
       <<".", "g", "i", "t">>,
       <<"d", "i", "s", "t">>,
       N_build,
       <<"_", "_", "p", "y", "c", "a", "c", "h", "e", "_", "_">> >>

\* str::contains: the pattern occurs somewhere in the name.
Contains(name, p) ==
    \E i \in 0..(Len(name) - Len(p)) : SubSeq(name, i + 1, i + Len(p)) = p

\* AstBuilder::should_ignore: some component of the path contains some
\* pattern.
should_ignore(pats, path) ==
    \E c \in SeqRange(path) : \E p \in SeqRange(pats) : Contains(c, p)

\* What a directory of the disk can hold.
EntryNames ==
    << [name |-> N_src, is_dir |-> TRUE],
       [name |-> N_build, is_dir |-> TRUE],
       [name |-> N_builder_rs, is_dir |-> FALSE],
       [name |-> N_main_rs, is_dir |-> FALSE] >>

\* The paths a project is analysed at.
RootPaths == {<<N_proj>>, <<N_build, N_proj>>}

RECURSIVE EntryPath(_, _)
\* The path of entry e of the disk (0 is the root).
EntryPath(d, e) ==
    IF e = 0 THEN d.root
    ELSE Append(EntryPath(d, d.entries[e].parent), d.entries[e].name)

\* WalkBuilder::new(path).max_depth(Some(1)).build().skip(1): the entries
\* directly in a directory, in the order the walker yields them.
EntriesIn(d, dir) == Ascending({e \in DOMAIN d.entries : d.entries[e].parent = dir})

\* A directory tree on disk: every entry lies in a directory, and the names
\* in one directory differ.
DiskTree(root, kind, m, par, nm, bad) ==
    [root |-> root,
     kind |-> kind,
     entries |-> [e \in 1..m |->
                    [parent |-> par[e],
                     name |-> EntryNames[nm[e]].name,
                     is_dir |-> EntryNames[nm[e]].is_dir,
                     unreadable |-> bad = e]]]

DiskShape(m, par, nm) ==
    /\ \A e \in 1..m : par[e] < e
    /\ \A e \in 1..m : par[e] # 0 => EntryNames[nm[par[e]]].is_dir
    /\ \A e, f \in 1..m : (e # f /\ par[e] = par[f]) => nm[e] # nm[f]

BuildOk(ns, id) == [ok |-> TRUE, nodes |-> ns, id |-> id]
BuildErr(ns, e) == [ok |-> FALSE, nodes |-> ns, error |-> e]

build_file_orphan(ns, path, depth, parent) ==
    LET r == ArenaAlloc(ns, new_file(0, path, depth)) IN BuildOk(r.nodes, r.id)

\* AstBuilder::build_file
build_file(ns, path, depth, parent) ==
    LET node == new_file(0, path, depth)
        r == ArenaAlloc(ns, IF parent # None THEN with_parent(node, parent[1])
                            ELSE node)
    IN  BuildOk(r.nodes, r.id)

RECURSIVE build_directory(_, _, _, _, _, _)
RECURSIVE build_entries(_, _, _, _, _, _, _)

\* AstBuilder::build_directory, the loop over the walker's entries: `es`
\* are the entries still to come, `children` the handles collected so far.
build_entries(d, pats, ns, es, depth, node_id, children) ==
    IF es = <<>> THEN [ok |-> TRUE, nodes |-> ns, children |-> children]
    ELSE LET e == Head(es)
             entry_path == EntryPath(d, e)
         IN  IF d.entries[e].unreadable THEN BuildErr(ns, "Io")
             ELSE IF should_ignore(pats, entry_path)
             THEN build_entries(d, pats, ns, Tail(es), depth, node_id, children)
             ELSE LET child ==
                          IF d.entries[e].is_dir
                          THEN build_directory(d, pats, ns, e, depth + 1, Some(node_id))
                          ELSE build_file(ns, entry_path, depth + 1, Some(node_id))
                  IN  IF ~child.ok THEN child
                      ELSE build_entries(d, pats, child.nodes, Tail(es), depth,
                                         node_id, Append(children, child.id))

\* AstBuilder::build_directory: the node is allocated, the entries are
\* built, then the node is read back and replaced with its children and
\* its parent set.
build_directory(d, pats, ns, e, depth, parent) ==
    LET r == ArenaAlloc(ns, new_directory(0, EntryPath(d, e), depth))
        node_id == r.id
        loop == build_entries(d, pats, r.nodes, EntriesIn(d, e), depth, node_id, <<>>)
    IN  IF ~loop.ok THEN loop
        ELSE LET g == ArenaGet(loop.nodes, node_id) IN
             IF g = None THEN BuildOk(loop.nodes, node_id)
             ELSE LET n1 == with_children(g[1], loop.children)
                      n2 == IF parent # None THEN with_parent(n1, parent[1]) ELSE n1
                  IN  BuildOk(ArenaUpdate(loop.nodes, node_id, n2), node_id)

\* AstBuilder::build
build(d, pats, ns) ==
    IF d.kind = "missing" THEN BuildErr(ns, "PathNotFound")
    ELSE IF d.kind = "dir" THEN build_directory(d, pats, ns, 0, 0, None)
    ELSE build_file(ns, d.root, 0, None)

\* AstBuilder::new() in front of a path that may not exist, may be a file,
\* or is a directory with up to MaxEntries entries below it, one of which
\* the walker may fail to read.
BuildInit ==
    /\ \E root \in RootPaths, kind \in {"missing", "file", "dir"} :
       \E m \in 0..MaxEntries :
       \E par \in [1..m -> 0..(m - 1)], nm \in [1..m -> DOMAIN EntryNames] :
       \E bad \in 0..m :
        /\ kind # "dir" => m = 0
        /\ DiskShape(m, par, nm)
        /\ bdisk = DiskTree(root, kind, m, par, nm, bad)
    /\ patterns = default_ignore_patterns
    /\ barena = <<>>
    /\ bret = None

\* add_ignore_pattern(pattern), before the build.
AddIgnorePattern ==
    /\ bret = None
    /\ patterns = default_ignore_patterns
    /\ \E p \in {N_src, N_main_rs} : patterns' = Append(patterns, p)
    /\ UNCHANGED <<bdisk, barena, bret>>
    /\ UNCHANGED offBuild

\* build(root)
Build ==
    /\ bret = None
    /\ LET r == build(bdisk, patterns, barena) IN
        /\ barena' = r.nodes
        /\ bret' = Some(IF r.ok THEN [ok |-> TRUE, id |-> r.id]
                        ELSE [ok |-> FALSE, error |-> r.error])
    /\ UNCHANGED <<bdisk, patterns>>
    /\ UNCHANGED offBuild

InitBuild == BuildInit /\ IdleOffBuild

NextBuild == AddIgnorePattern \/ Build

SpecBuild == InitBuild /\ [][NextBuild]_vars

\* ----------------------------------------------------------- SpecValidate
\* Policies around the edges of the three rules: class and method line
\* limits on both sides of each other, cluster sizes around 2, cluster
\* thresholds below, at, inside, at the end of and above [0, 1], and NaN.
PolicyInputs ==
    {[DefaultThresholds EXCEPT !.max_class_lines = cl, !.max_method_lines = ml,
                               !.min_cluster_size = mcs, !.cluster_threshold = ct] :
        cl \in {10} \cup Around(DefaultMaxMethodLines) \cup {DefaultMaxClassLines},
        ml \in {DefaultMaxMethodLines, 100},
        mcs \in 0..DefaultMinClusterSize,
        ct \in {F64(x) : x \in {-1, 0, DefaultClusterThresholdTenths, 10, 11}}
               \cup {NaN}}

ValidateInit ==
    /\ vpolicy \in PolicyInputs
    /\ vresult = None

\* thresholds.validate()
Validate ==
    /\ vresult = None
    /\ vresult' = Some(validate(vpolicy))
    /\ UNCHANGED vpolicy
    /\ UNCHANGED offValidate

\* The caller builds another policy.
NextPolicy ==
    /\ vresult # None
    /\ vpolicy' \in PolicyInputs
    /\ vresult' = None
    /\ UNCHANGED offValidate

InitValidate == ValidateInit /\ IdleOffValidate

NextValidate == Validate \/ NextPolicy

SpecValidate == InitValidate /\ [][NextValidate]_vars

\* ---------------------------------------------------------------- SpecRun
\* An analysis run from its entry point: check::run validates the policy,
\* builds the tree and traverses; TestHarness::analyze_path builds and
\* traverses. The traversal is the engine of Spec.
EntryPoints == {"check::run", "analyze_path"}

\* The policy of test_invalid_thresholds: method lines above class lines.
InvalidThresholds ==
    [DefaultThresholds EXCEPT !.max_class_lines = 10, !.max_method_lines = 100]

RunPolicies == {DefaultThresholds, InvalidThresholds}

\* The entry point has been called: nothing is built yet.
RunInit ==
    /\ entry \in EntryPoints
    /\ rstage = "entry"
    /\ root_exists \in BOOLEAN
    /\ checks = [validate |-> 0, exists |-> 0]
    /\ rret = None
    /\ thresholds \in RunPolicies
    /\ poolSize \in 1..MaxWorkers
    /\ nodes = <<>> /\ tree0 = <<>> /\ before = <<>>
    /\ fs = <<>> /\ results = <<>>
    /\ root_id = 0
    /\ pc = [h \in {0} |-> "unbuilt"]
    /\ joinOf = [h \in {0} |-> -1]
    /\ full = [h \in {0} |-> FALSE]
    /\ local = [h \in {0} |-> NoLocal]
    /\ err = [h \in {0} |-> "none"]
    /\ parses = [h \in {0} |-> 0]
    /\ published = [h \in {0} |-> NoWrites]
    /\ ret = None /\ clock = 0 /\ run = 1 /\ prev = None

\* check::run: thresholds.validate().map_err(..)?
RunValidate ==
    /\ entry = "check::run"
    /\ rstage = "entry"
    /\ checks' = [checks EXCEPT !.validate = @ + 1]
    /\ LET v == validate(thresholds) IN
       IF v.ok
       THEN /\ rstage' = "validated"
            /\ UNCHANGED rret
       ELSE /\ rstage' = "done"
            /\ rret' = Some([ok |-> FALSE, error |-> v.error.message])
    /\ UNCHANGED <<entry, root_exists>>
    /\ UNCHANGED engineVars
    /\ UNCHANGED offRun

\* AstBuilder::new().build(path)?, then ParallelTraverser::new over the
\* builder's arena.
RunBuild ==
    /\ \/ entry = "check::run" /\ rstage = "validated"
       \/ entry = "analyze_path" /\ rstage = "entry"
    /\ checks' = [checks EXCEPT !.exists = @ + 1]
    /\ IF ~root_exists
       THEN /\ rstage' = "done"
            /\ rret' = Some([ok |-> FALSE, error |-> "PathNotFound"])
            /\ UNCHANGED engineVars
       ELSE \E n \in 1..MaxNodes :
            \E par \in [1..(n - 1) -> 0..(n - 1)],
               lab \in [0..(n - 1) -> 0..Len(Flavors)] :
                /\ BuilderShape(n, par, lab)
                /\ nodes' = BuiltTree(n, par, lab, -1)
                /\ tree0' = nodes'
                /\ before' = nodes'
                /\ fs' = DiskOf(n, lab)
                /\ pc' = [h \in 0..n |-> "idle"]
                /\ joinOf' = [h \in 0..n |-> -1]
                /\ full' = [h \in 0..n |-> FALSE]
                /\ local' = [h \in 0..n |-> NoLocal]
                /\ err' = [h \in 0..n |-> "none"]
                /\ parses' = [h \in 0..n |-> 0]
                /\ published' = [h \in 0..n |-> NoWrites]
                /\ rstage' = "built"
                /\ UNCHANGED <<results, thresholds, poolSize, root_id, ret, clock,
                               run, prev, rret>>
    /\ UNCHANGED <<entry, root_exists>>
    /\ UNCHANGED offRun

\* traverser.traverse_and_analyze(root_id, &thresholds)? has returned: an
\* Err is passed on, an Ok is followed by all_results().
RunFinish ==
    /\ rstage = "built"
    /\ ret # None
    /\ rstage' = "done"
    /\ rret' = IF ret[1].ok THEN Some([ok |-> TRUE, results |-> AllResults(results)])
               ELSE Some([ok |-> FALSE, error |-> ret[1].error])
    /\ UNCHANGED <<entry, root_exists, checks>>
    /\ UNCHANGED engineVars
    /\ UNCHANGED offRun

InitRun == RunInit /\ IdleOffRun

NextRun ==
    \/ RunValidate
    \/ RunBuild
    \/ Call
    \/ TraverseRoot
    \/ \E h \in Handles : Dispatch(h)
    \/ \E h \in Handles : Skip(h)
    \/ \E h \in Handles : ParseFile(h)
    \/ \E h \in Handles : Reget(h)
    \/ \E h \in Handles : Insert(h)
    \/ \E h \in Handles : Update(h)
    \/ \E h \in Handles : JoinReturn(h)
    \/ Return
    \/ RunFinish

SpecRun == InitRun /\ [][NextRun]_vars

\* -------------------------------------------------------------- SpecGraph
\* DependencyGraph: `graph` is a petgraph DiGraph, its nodes a Vec of names
\* and its edges a Vec of (source, target, kind) over node indices, parallel
\* edges and loops allowed; `node_map` maps each name to its index.
EmptyGraph == [graph |-> [nodes |-> <<>>, edges |-> <<>>], node_map |-> <<>>]

\* DependencyGraph::add_node: the index of the name, a new node if needed.
add_node(g, name) ==
    IF name \in DOMAIN g.node_map
    THEN [dg |-> g, idx |-> g.node_map[name]]
    ELSE LET idx == Len(g.graph.nodes) + 1 IN
         [dg |-> [graph |-> [g.graph EXCEPT !.nodes = Append(@, name)],
                  node_map |-> MapInsert(g.node_map, name, idx)],
          idx |-> idx]

\* DependencyGraph::add_edge
add_edge(g, from, to, kind) ==
    LET a == add_node(g, from)
        b == add_node(a.dg, to)
    IN  [b.dg EXCEPT !.graph.edges =
            Append(@, [source |-> a.idx, target |-> b.idx, kind |-> kind])]

\* DiGraph::edges_directed(idx, direction)
edges_directed(g, idx, direction) ==
    {i \in DOMAIN g.graph.edges :
        IF direction = "Incoming" THEN g.graph.edges[i].target = idx
        ELSE g.graph.edges[i].source = idx}

coupling_metrics_swapped(g, node) ==
    IF node \notin DOMAIN g.node_map THEN None
    ELSE LET idx == g.node_map[node]
             incoming == Cardinality(edges_directed(g, idx, "Outgoing"))
             outgoing == Cardinality(edges_directed(g, idx, "Incoming"))
         IN  Some([afferent |-> incoming,
                   efferent |-> outgoing,
                   instability |-> IF incoming + outgoing > 0
                                   THEN [num |-> outgoing, den |-> incoming + outgoing]
                                   ELSE [num |-> 0, den |-> 1]])

\* DependencyGraph::coupling_metrics; the f64 quotient is kept as a
\* fraction.
coupling_metrics(g, node) ==
    IF node \notin DOMAIN g.node_map THEN None
    ELSE LET idx == g.node_map[node]
             incoming == Cardinality(edges_directed(g, idx, "Incoming"))
             outgoing == Cardinality(edges_directed(g, idx, "Outgoing"))
         IN  Some([afferent |-> incoming,
                   efferent |-> outgoing,
                   instability |-> IF incoming + outgoing > 0
                                   THEN [num |-> outgoing, den |-> incoming + outgoing]
                                   ELSE [num |-> 0, den |-> 1]])

\* The neighbours of v along the edges, or against them (Reversed(g)).
Neighbors(g, v, reversed) ==
    {w \in DOMAIN g.graph.nodes :
        \E i \in DOMAIN g.graph.edges :
            IF reversed
            THEN g.graph.edges[i].target = v /\ g.graph.edges[i].source = w
            ELSE g.graph.edges[i].source = v /\ g.graph.edges[i].target = w}

RECURSIVE DfsVisit(_, _, _, _)
RECURSIVE DfsEach(_, _, _, _)

\* A depth-first search from v that skips discovered nodes: d.discovered is
\* the visited set, d.order the nodes in the order they are finished.
DfsVisit(g, v, d, reversed) ==
    IF v \in d.discovered THEN d
    ELSE LET below == DfsEach(g, Ascending(Neighbors(g, v, reversed)),
                              [d EXCEPT !.discovered = @ \cup {v}], reversed)
         IN  [below EXCEPT !.order = Append(@, v)]

DfsEach(g, vs, d, reversed) ==
    IF vs = <<>> THEN d
    ELSE DfsEach(g, Tail(vs), DfsVisit(g, Head(vs), d, reversed), reversed)

RECURSIVE SecondPhase(_, _, _, _)
\* kosaraju_scc, second phase: the nodes in decreasing finishing time, each
\* undiscovered one the start of a search whose nodes are one component.
SecondPhase(g, finish_order, discovered, sccs) ==
    IF finish_order = <<>> THEN sccs
    ELSE LET i == finish_order[Len(finish_order)]
             rest == SubSeq(finish_order, 1, Len(finish_order) - 1)
         IN  IF i \in discovered THEN SecondPhase(g, rest, discovered, sccs)
             ELSE LET d == DfsVisit(g, i, [discovered |-> discovered, order |-> <<>>],
                                    FALSE)
                  IN  SecondPhase(g, rest, d.discovered, Append(sccs, d.order))

\* petgraph::algo::kosaraju_scc: finishing times by a search of the
\* reversed graph, then the second phase on the graph.
kosaraju_scc(g) ==
    LET first == DfsEach(g, Ascending(DOMAIN g.graph.nodes),
                         [discovered |-> {}, order |-> <<>>], TRUE)
    IN  SecondPhase(g, first.order, {}, <<>>)

find_cycles_keeps_singletons(g) ==
    LET sccs == kosaraju_scc(g) IN
    [k \in DOMAIN sccs |-> [j \in DOMAIN sccs[k] |-> g.graph.nodes[sccs[k][j]]]]

\* DependencyGraph::find_cycles
find_cycles(g) ==
    LET BigEnough(scc) == Len(scc) > 1
        sccs == SelectSeq(kosaraju_scc(g), BigEnough)
    IN  [k \in DOMAIN sccs |-> [j \in DOMAIN sccs[k] |-> g.graph.nodes[sccs[k][j]]]]

\* The names the callers feed the graph, and the kind of the edges they add.
Names == {"A", "B", "C"}
EdgeKinds == {"Uses"}

\* DependencyGraph::new()
GraphInit ==
    /\ dg = EmptyGraph
    /\ report = None

AddNode ==
    /\ \E name \in Names : dg' = add_node(dg, name).dg
    /\ report' = None
    /\ UNCHANGED offGraph

AddEdge ==
    /\ Len(dg.graph.edges) < MaxEdges
    /\ \E from \in Names, to \in Names, kind \in EdgeKinds :
        dg' = add_edge(dg, from, to, kind)
    /\ report' = None
    /\ UNCHANGED offGraph

CouplingMetrics ==
    /\ report = None
    /\ \E name \in Names :
        report' = Some([query |-> "coupling_metrics", node |-> name,
                        result |-> coupling_metrics(dg, name)])
    /\ UNCHANGED dg
    /\ UNCHANGED offGraph

FindCycles ==
    /\ report = None
    /\ report' = Some([query |-> "find_cycles", node |-> 0,
                       result |-> find_cycles(dg)])
    /\ UNCHANGED dg
    /\ UNCHANGED offGraph

InitGraph == GraphInit /\ IdleOffGraph

NextGraph == AddNode \/ AddEdge \/ CouplingMetrics \/ FindCycles

SpecGraph == InitGraph /\ [][NextGraph]_vars

\* ----------------------------------------------------------- SpecCoupling
\* CouplingAnalyzer: a DependencyGraph (held in dg) built once from class
\* metrics, as arch::run does, and then asked for the architecture metrics.
\* Names are sequences of characters here: build_graph looks into them.
\* Real numbers are kept as fractions [num, den].
Frac(n, d) == [num |-> n, den |-> d]

\* DependencyGraph::density
density(g) ==
    LET n == Len(g.graph.nodes)
        e == Len(g.graph.edges)
    IN  IF n <= 1 THEN Frac(0, 1) ELSE Frac(e, n * (n - 1))

UpperCase == {"A", "B", "C"}

\* called.contains('.') || called.chars().next().map_or(false, is_uppercase)
looks_external(called) ==
    \/ \E i \in DOMAIN called : called[i] = "."
    \/ (called # <<>> /\ called[1] \in UpperCase)

RECURSIVE add_dependencies(_, _, _)
add_dependencies(g, class_name, deps) ==
    IF deps = <<>> THEN g
    ELSE add_dependencies(add_edge(g, class_name, Head(deps), "Uses"),
                          class_name, Tail(deps))

RECURSIVE add_calls(_, _, _)
add_calls(g, class_name, called) ==
    IF called = <<>> THEN g
    ELSE add_calls(IF looks_external(Head(called))
                   THEN add_edge(g, class_name, Head(called), "Calls")
                   ELSE g,
                   class_name, Tail(called))

RECURSIVE add_method_calls(_, _, _)
add_method_calls(g, class_name, methods) ==
    IF methods = <<>> THEN g
    ELSE add_method_calls(add_calls(g, class_name, Head(methods).called_methods),
                          class_name, Tail(methods))

\* CouplingAnalyzer::build_graph
RECURSIVE build_graph(_, _)
build_graph(g, classes) ==
    IF classes = <<>> THEN g
    ELSE LET class == Head(classes)
             g1 == add_node(g, class.name).dg
             g2 == add_dependencies(g1, class.name, class.dependencies)
             g3 == add_method_calls(g2, class.name, class.methods)
         IN  build_graph(g3, Tail(classes))

\* CouplingAnalyzer::architecture_quality
architecture_quality(g) ==
    LET d == density(g)
        cycles == find_cycles(g)
        cyclomatic_quality == IF cycles = <<>> THEN Frac(1, 1)
                              ELSE Frac(1, 1 + Len(cycles))
    IN  [density |-> d,
         n_cycles |-> Len(cycles),
         cyclomatic_quality |-> cyclomatic_quality,
         maintainability_index |->
            Frac((d.den - d.num) * cyclomatic_quality.num,
                 d.den * cyclomatic_quality.den)]

\* The class metrics build_graph is fed: the fields it reads.
ClassNames == {<<"A">>, <<"B">>}
DependencyLists == {<<>>, <<<<"B">>>>, <<<<"A">>>>, <<<<"C">>, <<"C">>>>}
Calling(called) == [called_methods |-> called]
MethodLists ==
    {<<>>,
     <<Calling(<<<<"B">>>>)>>,
     <<Calling(<<<<"a", ".", "f">>, <<"h">>>>)>>,
     <<Calling(<<<<"B">>>>), Calling(<<<<"B">>>>)>>}
CouplingClasses ==
    [name : ClassNames, dependencies : DependencyLists, methods : MethodLists]
ClassLists == UNION {[1..k -> CouplingClasses] : k \in 0..MaxClasses}

\* CouplingAnalyzer::new()
CouplingInit ==
    /\ dg = EmptyGraph
    /\ report = None

\* arch::run: coupling_analyzer.build_graph(&all_classes)
BuildGraph ==
    /\ dg = EmptyGraph
    /\ report = None
    /\ \E classes \in ClassLists : dg' = build_graph(dg, classes)
    /\ dg' # EmptyGraph
    /\ UNCHANGED report
    /\ UNCHANGED offGraph

ArchitectureQuality ==
    /\ report = None
    /\ report' = Some([query |-> "architecture_quality", node |-> 0,
                       result |-> architecture_quality(dg)])
    /\ UNCHANGED dg
    /\ UNCHANGED offGraph

InitCoupling == CouplingInit /\ IdleOffGraph

NextCoupling == BuildGraph \/ ArchitectureQuality

SpecCoupling == InitCoupling /\ [][NextCoupling]_vars

\* ------------------------------------------------------------ SpecCluster
\* ClusteringAnalyzer. Method positions are 1-based here (0-based in the
\* code); names, fields and tokens are sequences of characters.
T_get == <<"g", "e", "t">>
T_id == <<"i", "d">>
T_order == <<"o", "r", "d", "e", "r">>
T_price == <<"p", "r", "i", "c", "e">>
S_Service == <<"S", "e", "r", "v", "i", "c", "e">>
S_Component == <<"C", "o", "m", "p", "o", "n", "e", "n", "t">>

\* common_words of generate_cluster_name (those the inputs can meet)
common_words == {T_get, <<"s", "e", "t">>, <<"a", "d", "d">>, <<"r", "u", "n">>,
                 <<"d", "o">>, <<"i", "s">>, <<"h", "a", "s">>, <<"c", "a", "n">>}

\* char::to_uppercase on the first letters the inputs can meet
to_uppercase(c) ==
    CASE c = "g" -> "G" [] c = "i" -> "I" [] c = "o" -> "O" [] c = "p" -> "P"
      [] OTHER -> c

\* capitalize_first
capitalize_first(s) == IF s = <<>> THEN <<>> ELSE <<to_uppercase(Head(s))>> \o Tail(s)

\* The number of positions of a sequence holding x.
Occurrences(s, x) == Cardinality({i \in DOMAIN s : s[i] = x})

RECURSIVE Flatten(_)
Flatten(ss) == IF ss = <<>> THEN <<>> ELSE Head(ss) \o Flatten(Tail(ss))

\* All orders a HashMap may iterate a set of keys in.
Perms(S) == {p \in [1..Cardinality(S) -> S] : \A x \in S : \E i \in DOMAIN p : p[i] = x}

\* generate_cluster_name: the filter on the tokens
usable(token) == token \notin common_words /\ Len(token) > 2

\* ClusteringAnalyzer::generate_cluster_name; `hash_order` is the order in
\* which token_freq iterates the keys that pass the filter.
generate_cluster_name(method_indices, methods, original_class, hash_order) ==
    LET all_tokens == Flatten([k \in DOMAIN method_indices |->
                                  methods[method_indices[k]].tokens])
        Present(token) == Occurrences(all_tokens, token) > 0 /\ usable(token)
        filtered == SelectSeq(hash_order, Present)
        IsMax(token) == \A i \in DOMAIN filtered :
                            Occurrences(all_tokens, filtered[i])
                                <= Occurrences(all_tokens, token)
        max_set == SelectSeq(filtered, IsMax)
        top_tokens == [i \in 1..(IF Len(max_set) < 2 THEN Len(max_set) ELSE 2) |->
                          capitalize_first(max_set[i])]
    IN  IF top_tokens = <<>> THEN original_class \o S_Component
        ELSE Flatten(top_tokens) \o S_Service

\* The count of one field over all_fields, as field_counts holds it.
field_count(all_fields, field) == Occurrences(all_fields, field)

\* ClusteringAnalyzer::calculate_cohesion; avg_fields_per_method is
\* Len(all_fields) / Len(method_indices), so shared / avg is
\* shared * Len(method_indices) / Len(all_fields).
calculate_cohesion(method_indices, methods) ==
    IF Len(method_indices) < 2 THEN Frac(1, 2)
    ELSE LET all_fields == Flatten([k \in DOMAIN method_indices |->
                                       methods[method_indices[k]].accessed_fields])
             shared_fields == Cardinality({f \in SeqRange(all_fields) :
                                  field_count(all_fields, f) >= Len(method_indices) \div 2})
         IN  IF Len(all_fields) = 0 THEN Frac(3, 10)
             ELSE IF shared_fields * Len(method_indices) >= Len(all_fields)
             THEN Frac(1, 1)
             ELSE Frac(shared_fields * Len(method_indices), Len(all_fields))

\* ClusteringAnalyzer::generate_justification: the count and up to five names
generate_justification(method_indices, methods) ==
    [count |-> Len(method_indices),
     names |-> [k \in 1..(IF Len(method_indices) < 5 THEN Len(method_indices) ELSE 5) |->
                   methods[method_indices[k]].name]]

\* analyze: the positions labelled cluster_id, in ascending order.
members_of(labels, cluster_id) ==
    LET Labelled(i) == labels[i] = Some(cluster_id)
    IN  SelectSeq([i \in DOMAIN labels |-> i], Labelled)

\* analyze: one ResponsibilityCluster
responsibility_cluster(method_indices, class, hash_order) ==
    [suggested_name |->
        generate_cluster_name(method_indices, class.methods, class.name, hash_order),
     methods |-> [k \in DOMAIN method_indices |-> class.methods[method_indices[k]].name],
     cohesion_score |-> calculate_cohesion(method_indices, class.methods),
     shared_dependencies |-> <<>>,
     justification |-> generate_justification(method_indices, class.methods)]

analyze_keeps_small_clusters(class, t, labels, cluster_order, hash_orders) ==
    IF Len(class.methods) < t.min_cluster_size THEN [ok |-> TRUE, value |-> <<>>]
    ELSE [ok |-> TRUE,
          value |-> [k \in DOMAIN cluster_order |->
                        responsibility_cluster(members_of(labels, cluster_order[k]),
                                               class, hash_orders[cluster_order[k]])]]

\* ClusteringAnalyzer::analyze, given the labels the clusterer returned, the
\* order in which `clusters` iterates its keys and, for each key, the order
\* in which that cluster's token_freq iterates.
analyze(class, t, labels, cluster_order, hash_orders) ==
    IF Len(class.methods) < t.min_cluster_size THEN [ok |-> TRUE, value |-> <<>>]
    ELSE LET BigEnough(cluster_id) ==
                 ~(Len(members_of(labels, cluster_id)) < t.min_cluster_size)
             kept == SelectSeq(cluster_order, BigEnough)
         IN  [ok |-> TRUE,
              value |-> [k \in DOMAIN kept |->
                            responsibility_cluster(members_of(labels, kept[k]),
                                                   class, hash_orders[kept[k]])]]

\* The methods a class is made of: the fields analyze reads.
ClusterMethod(i, fields, tokens) ==
    [name |-> <<"m", i>>, accessed_fields |-> fields, tokens |-> tokens]
MethodShapes ==
    {[fields |-> <<<<"a">>>>, tokens |-> <<T_order>>],
     [fields |-> <<>>, tokens |-> <<T_id>>],
     [fields |-> <<<<"a">>, <<"b">>>>, tokens |-> <<T_get, T_price>>]}
ClusterClasses ==
    UNION {{[name |-> <<"K">>,
             methods |-> [i \in 1..n |-> ClusterMethod(i, sh[i].fields, sh[i].tokens)]] :
            sh \in [1..n -> MethodShapes]} : n \in 0..MaxClustered}
ClusterPolicies ==
    {[DefaultThresholds EXCEPT !.min_cluster_size = m] : m \in 1..DefaultMinClusterSize}

ClusterIds(labels) == {labels[i][1] : i \in {j \in DOMAIN labels : labels[j] # None}}

\* DbscanClusterer::cluster: a cluster id or None (noise) for every row;
\* the clusters found are numbered from 0 on.
LabelVectors(n) ==
    {labels \in [1..n -> {None} \cup {Some(c) : c \in 0..(n - 1)}] :
        \A c \in ClusterIds(labels) : c = 0 \/ c - 1 \in ClusterIds(labels)}
Tokens == {T_get, T_id, T_order, T_price}
TokenOrders == Perms({token \in Tokens : usable(token)})

ClusterInit ==
    /\ kclass \in {Some(c) : c \in ClusterClasses}
    /\ kpolicy \in ClusterPolicies
    /\ klabels = None
    /\ kresult = None

\* One call of analyze. The clusterer is not reached when the class has
\* fewer methods than min_cluster_size.
ClusterAnalyze ==
    /\ kresult = None
    /\ LET class == kclass[1] IN
        IF Len(class.methods) < kpolicy.min_cluster_size
        THEN /\ klabels' = None
             /\ kresult' = Some(analyze(class, kpolicy, <<>>, <<>>, <<>>))
        ELSE \E labels \in LabelVectors(Len(class.methods)) :
             \E cluster_order \in Perms(ClusterIds(labels)) :
             \E hash_orders \in [ClusterIds(labels) -> TokenOrders] :
                /\ klabels' = Some(labels)
                /\ kresult' = Some(analyze(class, kpolicy, labels, cluster_order,
                                           hash_orders))
    /\ UNCHANGED <<kclass, kpolicy>>
    /\ UNCHANGED offCluster

InitCluster == ClusterInit /\ IdleOffCluster

NextCluster == ClusterAnalyze

SpecCluster == InitCluster /\ [][NextCluster]_vars

\* ------------------------------------------------------------------ claims
\* The class thresholds the class exceeds, read off its metrics.
ExceededClassKinds(c, t) ==
    {k \in {"Lines", "MethodCount", "Complexity"} :
        \/ k = "Lines" /\ c.lines > t.max_class_lines
        \/ k = "MethodCount" /\ c.method_count > t.max_methods
        \/ k = "Complexity" /\ c.complexity > t.max_class_complexity}

\* The violations a method incurs, read off its metrics.
ExceededMethodViolations(m, t) ==
    {v \in {Violation("Lines", m.lines, t.max_method_lines),
            Violation("Complexity", m.complexity, t.max_method_complexity),
            Violation("ParameterCount", m.parameters, t.max_parameters)} :
        v.actual > v.threshold}

\* Every Violation record an AnalysisResult carries.
RecordedViolations(r) ==
    UNION {SeqRange(r.god_methods[i].violations) : i \in DOMAIN r.god_methods}

\* C1: the is_god_class flag of a result is true iff lines > max_class_lines
\* or method_count > max_methods or complexity > max_class_complexity, the
\* comparisons strict, so that a class sitting on the thresholds is not flagged.
C1_GodClassIffStrictlyOver ==
    aresult # None =>
        LET c == aclass[1]
            t == athresholds
        IN  aresult[1].is_god_class <=>
                (\/ c.lines > t.max_class_lines
                 \/ c.method_count > t.max_methods
                 \/ c.complexity > t.max_class_complexity)

\* A class with exactly max_methods methods, max_class_lines lines and
\* max_class_complexity complexity was analysed and was not flagged.
C1_Witness ==
    /\ aresult # None
    /\ aclass[1].lines = athresholds.max_class_lines
    /\ aclass[1].method_count = athresholds.max_methods
    /\ aclass[1].complexity = athresholds.max_class_complexity
    /\ ~aresult[1].is_god_class

\* C6: god_methods lists exactly the methods over at least one method
\* threshold, in order, and each entry's violations are exactly the exceeded
\* ones among Lines, Complexity, ParameterCount, once each, with the observed
\* value and the threshold; no violations list is empty.
C6_GodMethodsAndViolationsExact ==
    aresult # None =>
        LET c == aclass[1]
            t == athresholds
            r == aresult[1]
            over == SelectSeq(c.methods,
                        LAMBDA m : ExceededMethodViolations(m, t) # {})
        IN  /\ Len(r.god_methods) = Len(over)
            /\ \A i \in DOMAIN r.god_methods :
                LET g == r.god_methods[i] IN
                /\ g.metrics = over[i]
                /\ g.method_name = over[i].name
                /\ SeqRange(g.violations) = ExceededMethodViolations(over[i], t)
                /\ Len(g.violations) = Cardinality(ExceededMethodViolations(over[i], t))
                /\ g.violations # <<>>

\* A god method over all three thresholds carries three violations, next to
\* a method of the same class that is over none and is not listed.
C6_Witness ==
    /\ aresult # None
    /\ Len(aclass[1].methods) = 2
    /\ Len(aresult[1].god_methods) = 1
    /\ Len(aresult[1].god_methods[1].violations) = 3

\* C7: has_issues() holds exactly when the class exceeds a class threshold or
\* one of its methods exceeds a method threshold, and the result is the
\* healthy variant exactly when neither is the case.
C7_HasIssuesAndHealthy ==
    aresult # None =>
        LET c == aclass[1]
            t == athresholds
            r == aresult[1]
            anyOver == \/ ExceededClassKinds(c, t) # {}
                       \/ \E i \in DOMAIN c.methods :
                              ExceededMethodViolations(c.methods[i], t) # {}
        IN  /\ has_issues(r) <=> (r.is_god_class \/ Len(r.god_methods) > 0)
            /\ has_issues(r) <=> anyOver
            /\ (r = healthy(c, r.analyzed_at)) <=> ~anyOver
            /\ ~anyOver => /\ ~r.is_god_class
                           /\ r.god_methods = <<>>
                           /\ r.suggested_extractions = <<>>

\* A class within every class threshold has issues because of a god method.
C7_Witness ==
    /\ aresult # None
    /\ ExceededClassKinds(aclass[1], athresholds) = {}
    /\ has_issues(aresult[1])
    /\ ~aresult[1].is_god_class

\* C8: the class with 500 lines, 30 methods and complexity 80 under the
\* default thresholds is flagged and its result records the violations
\* Lines, MethodCount and Complexity, each with observed value and threshold.
C8_GodClassRecordsClassViolations ==
    (aresult # None /\ aclass = Some(GodClassOfTest)
        /\ athresholds = DefaultThresholds) =>
        /\ aresult[1].is_god_class
        /\ RecordedViolations(aresult[1]) =
              {Violation("Lines", 500, DefaultMaxClassLines),
               Violation("MethodCount", 30, DefaultMaxMethods),
               Violation("Complexity", 80, DefaultMaxClassComplexity)}

\* The File nodes of the tree, those Node::language recognizes, and those
\* parse_file has no extractor for.
FileNodes == {h \in 0..(Len(tree0) - 1) : is_file(tree0[h + 1])}
Recognized == {h \in FileNodes : language(tree0[h + 1]) # None}
NoExtractorFiles ==
    {h \in FileNodes :
        \/ detect_language(tree0[h + 1].path) = None
        \/ ~HasExtractor(detect_language(tree0[h + 1].path)[1])}

\* A directory lists a child handle the store does not hold.
MissingHandle ==
    \E i \in DOMAIN tree0 : \E c \in SeqRange(tree0[i].children) :
        c + 1 \notin DOMAIN tree0

\* The source of the file cannot be read or parsed by its extractor.
ExtractorFails(h) == fs[tree0[h + 1].path].error # "none"

\* The FileMetrics of the file's own source.
OwnMetrics(h) == Extract(tree0[h + 1].path, fs[tree0[h + 1].path]).metrics[1]

Returned == ret # None
ReturnedOk == ret # None /\ ret[1].ok

\* The store holds h's own metrics and results, and the map h's entry.
Published(h) ==
    /\ nodes[h + 1].file_metrics = Some(OwnMetrics(h))
    /\ h \in DOMAIN results
    /\ nodes[h + 1].analysis_results = results[h]
    /\ Len(results[h]) = Len(OwnMetrics(h).classes)
    /\ \A i \in DOMAIN results[h] :
          results[h][i].class_metrics = OwnMetrics(h).classes[i]

\* C2: over a tree whose recognized files all extract, the call ends with
\* exactly one result entry per recognized file, and a file task that has
\* finished leaves its own metrics and results in its node for the rest of
\* the run, whatever the other workers do meanwhile.
C2_NoLostUpdates ==
    /\ \A h \in Recognized : pc[h] = "ok" => Published(h)
    /\ (Returned /\ ~MissingHandle
            /\ \A h \in Recognized : parse_file(fs, tree0[h + 1].path).ok) =>
          /\ ret[1].ok
          /\ DOMAIN results = Recognized
          /\ \A h \in Recognized : Published(h)

\* Two recognized files of one directory were analysed by a pool of at
\* least two workers and the call has returned.
C2_Witness ==
    /\ ReturnedOk
    /\ poolSize >= 2
    /\ Cardinality(Recognized) >= 2
    /\ Cardinality(DOMAIN results) = Cardinality(Recognized)

\* C3: when parse_file fails for a recognized file or a child handle is
\* missing from the store, the call returns Err; no directory returns Ok
\* over a failed child, and no file is parsed more than once.
C3_FailurePropagates ==
    /\ (Returned /\ (MissingHandle
                     \/ \E h \in Recognized : ~parse_file(fs, tree0[h + 1].path).ok))
          => ~ret[1].ok
    /\ \A c \in Handles :
          (pc[c] = "err" /\ joinOf[c] # -1) => pc[joinOf[c]] # "ok"
    /\ \A h \in Handles : parses[h] <= 1

\* A file two directories below the root failed to parse and the call
\* returned that error.
C3_Witness ==
    /\ Returned
    /\ ~ret[1].ok
    /\ ret[1].error = "Parse"
    /\ \E h \in Recognized :
          /\ tree0[h + 1].depth = 2
          /\ pc[h] = "err"
          /\ parses[h] = 1

\* C4: a file whose extension has no extractor is a silent no-op: it does
\* not make the call fail, its node is left unchanged and it gets no entry
\* in the result map.
C4_NoExtractorIsSilentNoOp ==
    Returned =>
        /\ \A h \in NoExtractorFiles :
              /\ pc[h] # "err"
              /\ nodes[h + 1] = tree0[h + 1]
              /\ h \notin DOMAIN results
        /\ (~MissingHandle
              /\ \A h \in FileNodes \ NoExtractorFiles : ~ExtractorFails(h))
           => ret[1].ok

\* C5: when the call returns Ok, every recognized file is published in the
\* store and in the result map, and no task is pending, running or blocked
\* in a join, nor holds anything it has yet to write.
C5_OkOnlyAfterAllPublished ==
    ReturnedOk =>
        /\ \A h \in Recognized : Published(h)
        /\ \A h \in Handles :
              /\ pc[h] \in {"ok", "idle"}
              /\ local[h] = NoLocal
        /\ \A h \in 0..(Len(tree0) - 1) : pc[h] = "ok"

\* The call returned Ok over a recognized file two directories down.
C5_Witness ==
    /\ ReturnedOk
    /\ \E h \in Recognized :
          /\ tree0[h + 1].depth = 2
          /\ nodes[h + 1].file_metrics # None
          /\ h \in DOMAIN results

\* AnalysisResults without their analyzed_at timestamp.
Timeless(S) == {[r EXCEPT !.analyzed_at = 0] : r \in S}

Structure(node) ==
    [id |-> node.id, kind |-> node.kind, path |-> node.path, name |-> node.name,
     depth |-> node.depth, parent |-> node.parent, children |-> node.children]

\* C10: a call changes neither the number of nodes, nor the id, kind, path,
\* name, depth, parent or children of any node, nor a Directory node at all.
C10_FrameOfTraversal ==
    /\ Len(nodes) = Len(before)
    /\ \A i \in DOMAIN nodes :
          /\ Structure(nodes[i]) = Structure(before[i])
          /\ is_directory(before[i]) => nodes[i] = before[i]
          /\ ~is_file(before[i]) => nodes[i] = before[i]

\* The call returned after writing metrics into a file below a directory.
C10_Witness ==
    /\ Returned
    /\ \E i \in DOMAIN nodes :
          /\ nodes[i] # before[i]
          /\ nodes[i].file_metrics # None
          /\ nodes[i].parent # None

\* C11: alloc appends. Each handle alloc returned equals the number of
\* nodes stored before that call, the node stored under it carries the
\* handle as its id, and the length grew by one; whatever the interleaving
\* of the threads, the handles returned are pairwise distinct and the store
\* holds exactly one node per alloc; every handle returned still resolves
\* through get, and an alloc leaves the slots before it as they were.
C11_AllocAppends ==
    /\ \A i \in DOMAIN allocLog :
        /\ allocLog[i].handle = i - 1
        /\ allocLog[i].len = allocLog[i].handle + 1
        /\ allocLog[i].stored # None
        /\ allocLog[i].stored[1].id = allocLog[i].handle
        /\ ArenaGet(arena, allocLog[i].handle) # None
    /\ \A i, j \in DOMAIN allocLog :
        i # j => allocLog[i].handle # allocLog[j].handle
    /\ Len(arena) = Len(allocLog)
    /\ \A w \in SeqRange(lastWrite) :
        w.op = "alloc" =>
            /\ w.id = Len(w.before)
            /\ Len(arena) = Len(w.before) + 1
            /\ \A k \in DOMAIN w.before : arena[k] = w.before[k]

\* Two threads have both allocated, and one of the handles went through an
\* update since.
C11_Witness ==
    /\ Len(allocLog) = 2
    /\ allocLog[1].thread # allocLog[2].thread
    /\ \E w \in SeqRange(lastWrite) : w.op = "update" /\ w.id = 0

\* C12: update(h, n) changes at most slot h. For an allocated h the slot
\* becomes n, whole, and every other slot and the length stay; for an h that
\* is not allocated the store stays as it was. The value a get returned
\* stays the value the slot had at that get, whatever is written later.
C12_UpdateFrame ==
    /\ \A w \in SeqRange(lastWrite) :
        w.op = "update" =>
            /\ Len(arena) = Len(w.before)
            /\ \A k \in DOMAIN arena : k # w.id + 1 => arena[k] = w.before[k]
            /\ w.id < Len(w.before) => arena[w.id + 1] = w.node
            /\ w.id >= Len(w.before) => arena = w.before
    /\ \A t \in Threads :
        \A g \in SeqRange(snapAt[t]) :
            snap[t] = IF g.id < Len(g.store) THEN Some(g.store[g.id + 1]) ELSE None

\* An update has replaced an allocated slot whose earlier value a thread
\* still holds as a snapshot.
C12_Witness ==
    /\ \E w \in SeqRange(lastWrite) :
        /\ w.op = "update"
        /\ w.id < Len(w.before)
        /\ w.node # w.before[w.id + 1]
        /\ \E t \in Threads :
            /\ snap[t] = Some(w.before[w.id + 1])
            /\ snapAt[t] # None
            /\ snapAt[t][1].id = w.id

\* The pre-visit callbacks, and the place of a callback in the order of calls.
PreVisits == {"visit_file", "visit_directory"}
Calls(cbs, h) == {i \in DOMAIN visits : visits[i].cb \in cbs /\ visits[i].id = h}
PrePos(h) == CHOOSE i \in Calls(PreVisits, h) : TRUE
PostPos(h) == CHOOSE i \in Calls({"visit_post"}, h) : TRUE

RECURSIVE Subtree(_, _)
\* h and the nodes below it, by the children lists of the store.
Subtree(ns, h) ==
    IF h + 1 \notin DOMAIN ns THEN {}
    ELSE {h} \cup UNION {Subtree(ns, c) : c \in SeqRange(ns[h + 1].children)}

\* Every child handle of the store resolves.
NoDanglingChild(ns) ==
    \A i \in DOMAIN ns : \A c \in SeqRange(ns[i].children) : c + 1 \in DOMAIN ns

\* C13: on a well-formed tree the walk is depth-first in stored order. No
\* node is pre-visited or post-visited twice and none outside the walked
\* subtree is visited; a file gets visit_file and a directory
\* visit_directory; a node is pre-visited after its parent; a child is
\* pre-visited only after the post-visit of every child stored before it; the
\* post-visit of a node comes after its own pre-visit and after the pre- and
\* post-visits of all its descendants; and when the walk returns Ok every
\* node of the subtree has had exactly one pre-visit and one post-visit.
C13_DepthFirstOrder ==
    (NoDanglingChild(warena) /\ start < Len(warena)) =>
        LET T == Subtree(warena, start) IN
        /\ \A i \in DOMAIN visits :
            /\ visits[i].id \in T
            /\ visits[i].cb \in PreVisits =>
                visits[i].cb = IF is_file(warena[visits[i].id + 1])
                               THEN "visit_file" ELSE "visit_directory"
        /\ \A h \in T :
            /\ Cardinality(Calls(PreVisits, h)) <= 1
            /\ Cardinality(Calls({"visit_post"}, h)) <= 1
            /\ Calls({"visit_post"}, h) # {} =>
                /\ Calls(PreVisits, h) # {}
                /\ PrePos(h) < PostPos(h)
                /\ \A d \in Subtree(warena, h) \ {h} :
                    /\ Calls(PreVisits, d) # {}
                    /\ Calls({"visit_post"}, d) # {}
                    /\ PrePos(h) < PrePos(d)
                    /\ PostPos(d) < PostPos(h)
            /\ LET children == warena[h + 1].children IN
               \A k \in DOMAIN children :
                   Calls(PreVisits, children[k]) # {} =>
                       /\ Calls(PreVisits, h) # {}
                       /\ PrePos(h) < PrePos(children[k])
                       /\ \A j \in 1..(k - 1) :
                           /\ Calls({"visit_post"}, children[j]) # {}
                           /\ PostPos(children[j]) < PrePos(children[k])
        /\ wret = Some(Ok) =>
            \A h \in T :
                /\ Cardinality(Calls(PreVisits, h)) = 1
                /\ Cardinality(Calls({"visit_post"}, h)) = 1

\* A walk from the root of a tree with a directory below the root or two
\* children of the root has returned Ok.
C13_Witness ==
    /\ NoDanglingChild(warena)
    /\ start = 0
    /\ Len(warena) >= 3
    /\ wret = Some(Ok)
    /\ Len(visits) = 2 * Len(warena)

\* C14: an Err aborts the walk. Only the last callback made can have
\* returned an error; once a callback has failed or a handle was missing no
\* further callback is made, so no post-visit has fired for the failing node
\* (other than the failing callback itself) or for a node above it; the walk
\* returns that error; and the walk returns an Err only for such a failure.
C14_ErrorAborts ==
    /\ \A i \in DOMAIN visits : ~visits[i].ok => (i = Len(visits) /\ failure # None)
    /\ \A f \in SeqRange(failure) :
        /\ Len(visits) = f.at
        /\ \A r \in SeqRange(wret) : r = Err(f.error)
        /\ \A i \in DOMAIN visits :
            (visits[i].cb = "visit_post" /\ visits[i].id \in f.open) =>
                (~visits[i].ok /\ i = Len(visits))
    /\ \A r \in SeqRange(wret) : ~r.ok => failure # None

\* A callback failed below the start node while a node of the subtree was
\* still unvisited, and the walk has returned.
C14_Witness ==
    /\ wret # None
    /\ failure # None
    /\ failure[1].error.kind = "Visitor"
    /\ failure[1].error.id # start
    /\ \E h \in Subtree(warena, start) : Calls(PreVisits, h) = {}

\* Number of places a handle holds in the children lists of a store.
Listings(ns, h) ==
    Cardinality({pi \in UNION {{<<p, i>> : i \in DOMAIN ns[p].children} :
                                p \in DOMAIN ns} :
                    ns[pi[1]].children[pi[2]] = h})

\* C15: after build returns Ok the store holds a well-formed tree. The root
\* has no parent and depth 0; every handle in a children list resolves to a
\* node whose parent is the listing node, whose depth is one more and whose
\* handle is greater; every node but the root is listed exactly once in
\* exactly one children list; file nodes have no children.
C15_WellFormedTree ==
    \A r \in SeqRange(bret) :
        r.ok =>
            /\ r.id + 1 \in DOMAIN barena
            /\ barena[r.id + 1].parent = None
            /\ barena[r.id + 1].depth = 0
            /\ \A i \in DOMAIN barena :
                /\ barena[i].id = i - 1
                /\ is_file(barena[i]) => barena[i].children = <<>>
                /\ i - 1 # r.id => Listings(barena, i - 1) = 1
                /\ \A c \in SeqRange(barena[i].children) :
                    /\ c + 1 \in DOMAIN barena
                    /\ barena[c + 1].parent = Some(i - 1)
                    /\ barena[c + 1].depth = barena[i].depth + 1
                    /\ c > i - 1

\* A build has returned Ok with a file two levels below the root.
C15_Witness ==
    /\ bret # None
    /\ bret[1].ok
    /\ \E i \in DOMAIN barena : is_file(barena[i]) /\ barena[i].depth = 2

\* The entry of the disk has a node in the store.
HasNode(e) == \E i \in DOMAIN barena : barena[i].path = EntryPath(bdisk, e)

\* C16: after a build that returned Ok, an entry below the root is left out
\* of the tree exactly when one of the components of its path is a name on
\* the ignore list (the defaults and the names added).
C16_ExcludedIffNameOnList ==
    \A r \in SeqRange(bret) :
        r.ok =>
            \A e \in DOMAIN bdisk.entries :
                ~HasNode(e) <=>
                    \E c \in SeqRange(EntryPath(bdisk, e)) : c \in SeqRange(patterns)

\* The rules of the policy that a Thresholds value breaks.
BrokenRules(t) ==
    {m \in {"max_class_lines must be >= max_method_lines"} :
        ~(t.max_class_lines >= t.max_method_lines)}
    \cup {m \in {"cluster_threshold must be between 0.0 and 1.0"} :
        ~(~t.cluster_threshold.nan /\ 0 <= t.cluster_threshold.tenths
                                   /\ t.cluster_threshold.tenths <= 10)}
    \cup {m \in {"min_cluster_size must be >= 2"} : ~(t.min_cluster_size >= 2)}

\* C17: validate succeeds exactly when max_class_lines >= max_method_lines,
\* 0 <= cluster_threshold <= 1 and min_cluster_size >= 2; when it fails the
\* failure is an Error::Config whose message names a rule the policy breaks.
C17_ValidateIffRulesHold ==
    \A r \in SeqRange(vresult) :
        /\ r.ok <=> BrokenRules(vpolicy) = {}
        /\ ~r.ok =>
            /\ r.error.type = "Config"
            /\ r.error.message \in BrokenRules(vpolicy)

\* C18: the pre-checks come before any traversal work. In a run whose
\* policy fails validation or whose root does not exist no extractor is
\* invoked, no node is analysed, no result entry is created and the caller
\* gets the error; and no pre-check is made twice.
C18_PreChecksBeforeTraversal ==
    /\ checks.validate <= 1
    /\ checks.exists <= 1
    /\ (~validate(thresholds).ok \/ ~root_exists) =>
        /\ \A h \in DOMAIN parses : parses[h] = 0
        /\ \A h \in DOMAIN pc : pc[h] \in {"unbuilt", "idle"}
        /\ results = <<>>
        /\ nodes = tree0
        /\ \A r \in SeqRange(rret) : ~r.ok

\* The edges of the graph as pairs of names, one per edge, and the names
\* reachable from a set of names along one or more edges.
NameOf(i) == dg.graph.nodes[i]
EdgePairs == {<<NameOf(dg.graph.edges[i].source), NameOf(dg.graph.edges[i].target)>> :
                i \in DOMAIN dg.graph.edges}
Step(S) == {e[2] : e \in {x \in EdgePairs : x[1] \in S}}

RECURSIVE Closure(_)
Closure(S) == IF Step(S) \subseteq S THEN S ELSE Closure(S \cup Step(S))

ReachableFrom(a) == Closure(Step({a}))
Component(a) == {a} \cup {b \in ReachableFrom(a) : a \in ReachableFrom(b)}

C20_CouplingCountsEdges ==
    /\ Cardinality(SeqRange(dg.graph.nodes)) = Len(dg.graph.nodes)
    /\ \A rp \in SeqRange(report) :
        (rp.query = "coupling_metrics" /\ rp.node \in SeqRange(dg.graph.nodes)) =>
            LET into == Cardinality({i \in DOMAIN dg.graph.edges :
                                        NameOf(dg.graph.edges[i].target) = rp.node})
                out == Cardinality({i \in DOMAIN dg.graph.edges :
                                        NameOf(dg.graph.edges[i].source) = rp.node})
            IN  /\ rp.result # None
                /\ rp.result[1].afferent = into
                /\ rp.result[1].efferent = out
                /\ rp.result[1].instability.den > 0
                /\ IF into + out = 0 THEN rp.result[1].instability.num = 0
                   ELSE rp.result[1].instability.num * (into + out)
                            = out * rp.result[1].instability.den
                /\ (Len(dg.graph.edges) = 2
                      /\ \E b, c \in SeqRange(dg.graph.nodes) :
                            /\ Cardinality({rp.node, b, c}) = 3
                            /\ EdgePairs = {<<c, rp.node>>, <<rp.node, b>>}) =>
                        (rp.result[1].afferent = 1 /\ rp.result[1].efferent = 1)

\* coupling_metrics has answered for A in the graph with just the edges
\* C->A and A->B.
C20_Witness ==
    /\ report # None
    /\ report[1].query = "coupling_metrics"
    /\ Len(dg.graph.edges) = 2
    /\ \E b, c \in SeqRange(dg.graph.nodes) :
        /\ Cardinality({report[1].node, b, c}) = 3
        /\ EdgePairs = {<<c, report[1].node>>, <<report[1].node, b>>}
    /\ report[1].result # None
    /\ report[1].result[1].afferent = 1
    /\ report[1].result[1].efferent = 1

\* C21: for a graph built by build_graph the reported density is
\* edges / (n (n - 1)) for n > 1 and 0 otherwise, the cyclomatic quality is
\* 1 without a cycle and 1 / (1 + cycle_count) otherwise, and the
\* maintainability index (1 - density) * cyclomatic_quality is in [0, 1].
QualityReported == report # None /\ report[1].query = "architecture_quality"
CycleCount ==
    Cardinality({Component(a) : a \in {x \in SeqRange(dg.graph.nodes) :
                                         Cardinality(Component(x)) > 1}})
DensityAsDefined ==
    LET n == Len(dg.graph.nodes)
        d == report[1].result.density
    IN  /\ d.den > 0
        /\ IF n > 1 THEN d.num * (n * (n - 1)) = Len(dg.graph.edges) * d.den
           ELSE d.num = 0
CyclomaticQualityAsDefined ==
    LET q == report[1].result.cyclomatic_quality
    IN  /\ q.den > 0
        /\ IF CycleCount = 0 THEN q.num = q.den
           ELSE q.num * (1 + CycleCount) = q.den
MaintainabilityAsDefined ==
    LET d == report[1].result.density
        q == report[1].result.cyclomatic_quality
        m == report[1].result.maintainability_index
    IN  /\ m.den > 0
        /\ m.num * (d.den * q.den) = (d.den - d.num) * q.num * m.den
MaintainabilityInUnitInterval ==
    LET m == report[1].result.maintainability_index
    IN  m.den > 0 /\ 0 <= m.num /\ m.num <= m.den
C21_ArchitectureQuality ==
    QualityReported =>
        /\ DensityAsDefined
        /\ CyclomaticQualityAsDefined
        /\ MaintainabilityAsDefined
        /\ MaintainabilityInUnitInterval

\* What analyze returned, and the positions of the methods a returned
\* cluster names (the methods of a class have distinct names).
Suggested == kresult[1].value
MembersOf(cluster) ==
    {i \in DOMAIN kclass[1].methods :
        kclass[1].methods[i].name \in SeqRange(cluster.methods)}
ClustersHolding(i) == {k \in DOMAIN Suggested : i \in MembersOf(Suggested[k])}

ClustersAsRequired ==
    kresult # None =>
        /\ kresult[1].ok
        /\ Len(kclass[1].methods) < kpolicy.min_cluster_size => Suggested = <<>>
        /\ \A k \in DOMAIN Suggested :
            /\ Len(Suggested[k].methods) >= kpolicy.min_cluster_size
            /\ Cardinality(MembersOf(Suggested[k])) = Len(Suggested[k].methods)
        /\ \A i \in DOMAIN kclass[1].methods :
            /\ Cardinality(ClustersHolding(i)) <= 1
            /\ (klabels # None /\ klabels[1][i] = None) => ClustersHolding(i) = {}

\* C22: analyze returns no cluster for a class with fewer methods than
\* min_cluster_size; every cluster it returns has at least min_cluster_size
\* member methods, all methods of the class, none of them noise and none in
\* two returned clusters; no step of analyze changes the class's metrics.
C22_ClustersRespectMinimum ==
    []ClustersAsRequired /\ [][kclass' = kclass]_vars

\* analyze has returned a cluster and discarded a smaller one.
C22_Witness ==
    /\ kresult # None
    /\ klabels # None
    /\ Suggested # <<>>
    /\ \E i \in DOMAIN kclass[1].methods :
        klabels[1][i] # None /\ ClustersHolding(i) = {}

\* C23: the cohesion score of a cluster is 1/2 with fewer than 2 methods;
\* otherwise 3/10 when its methods access no field, and else the number of
\* fields accessed by at least half of its methods divided by the average
\* number of accessed fields per method, at most 1; it is always in [0, 1]
\* with a non-zero denominator.
FieldsOf(i) == SeqRange(kclass[1].methods[i].accessed_fields)
CohesionAsSpecified(cluster) ==
    LET members == MembersOf(cluster)
        m == Cardinality(members)
        total == Len(Flatten([k \in DOMAIN cluster.methods |->
                    kclass[1].methods[CHOOSE i \in members :
                        kclass[1].methods[i].name = cluster.methods[k]].accessed_fields]))
        shared == Cardinality({f \in UNION {FieldsOf(i) : i \in members} :
                      2 * Cardinality({i \in members : f \in FieldsOf(i)}) >= m})
        score == cluster.cohesion_score
    IN  /\ score.den > 0
        /\ 0 <= score.num /\ score.num <= score.den
        /\ IF m < 2 THEN 2 * score.num = score.den
           ELSE IF total = 0 THEN 10 * score.num = 3 * score.den
           ELSE IF shared * m >= total THEN score.num = score.den
           ELSE score.num * total = shared * m * score.den
C23_CohesionScore ==
    kresult # None => \A k \in DOMAIN Suggested : CohesionAsSpecified(Suggested[k])

\* C24: for every method and every policy the engine accepts,
\* violation_score is a finite number, the mean of lines / max_method_lines,
\* complexity / max_method_complexity and parameters / max_parameters, and
\* it is greater than 1 whenever the method exceeds all three thresholds.
Scored == aresult # None /\ aclass # None
ScoreIsFinite == aresult[1].value = "finite" /\ aresult[1].den # 0
ScoreIsMeanOfRatios ==
    LET m == aclass[1]
        t == athresholds
        s == aresult[1]
    IN  3 * s.num * t.max_method_lines * t.max_method_complexity * t.max_parameters
            = s.den * (m.lines * t.max_method_complexity * t.max_parameters
                       + m.complexity * t.max_method_lines * t.max_parameters
                       + m.parameters * t.max_method_lines * t.max_method_complexity)
ScoreAboveOneWhenAllExceeded ==
    LET m == aclass[1]
        t == athresholds
        s == aresult[1]
    IN  (m.lines > t.max_method_lines /\ m.complexity > t.max_method_complexity
            /\ m.parameters > t.max_parameters) =>
        (s.value = "inf" \/ (s.value = "finite" /\ s.den > 0 /\ s.num > s.den))
C24_ViolationScoreFiniteMean ==
    Scored =>
        /\ ScoreIsFinite
        /\ ScoreIsMeanOfRatios
        /\ ScoreAboveOneWhenAllExceeded

\* The File nodes with a recognized language that carry file metrics.
AnalysedFiles ==
    {h \in 0..(Len(nodes) - 1) :
        /\ is_file(nodes[h + 1])
        /\ language(nodes[h + 1]) # None
        /\ nodes[h + 1].file_metrics # None}
ExceededFileKinds(f, t) ==
    {k \in {"ClassesPerFile", "Lines"} :
        \/ (k = "ClassesPerFile" /\ Len(f.classes) > t.max_classes_per_file)
        \/ (k = "Lines" /\ f.lines > t.max_file_lines)}

\* C25: after any sequence of calls of traverse_and_analyze that returned
\* Ok on one store, an analysed File node carries a GodFileResult exactly
\* when, under the thresholds of the latest call, its class count exceeds
\* max_classes_per_file or its lines exceed max_file_lines, and the recorded
\* violations are exactly the exceeded ones.
C25_GodFileVerdictIsCurrent ==
    (ret # None /\ ret[1].ok) =>
        \A h \in AnalysedFiles :
            LET node == nodes[h + 1]
                exceeded == ExceededFileKinds(node.file_metrics[1], thresholds)
            IN  /\ (node.god_file_result # None) <=> (exceeded # {})
                /\ node.god_file_result # None =>
                    {v.kind : v \in SeqRange(node.god_file_result[1].violations)}
                        = exceeded

\* How often the call has extracted h, inserted its results and written its
\* node.
Extractions(h) == parses[h]
MapInserts(h) == published[h].inserts
StoreWrites(h) == published[h].updates
NothingRemoved == Len(nodes) = Len(before) /\ Len(nodes) = Len(tree0)

\* C26 as stated: in a call over a tree the builder produced every File
\* node with a recognized language is extracted, inserted into the result
\* map and written to the store exactly once; nothing is extracted or
\* written twice and no node is removed.
C26_EachFileExactlyOnce ==
    /\ NothingRemoved
    /\ \A h \in Handles :
          Extractions(h) <= 1 /\ MapInserts(h) <= 1 /\ StoreWrites(h) <= 1
    /\ (Returned /\ ~MissingHandle) =>
          \A h \in Recognized :
              Extractions(h) = 1 /\ MapInserts(h) = 1 /\ StoreWrites(h) = 1

\* C26 as amended: in a call every File node with a recognized language is
\* extracted, inserted and written at most once, in that order, and nothing
\* else is extracted or written; when the call returns Ok each of them was
\* extracted, inserted and written exactly once; no node is removed.
C26_EachFileAtMostOnce ==
    /\ NothingRemoved
    /\ \A h \in Handles :
          /\ Extractions(h) <= 1
          /\ MapInserts(h) <= Extractions(h)
          /\ StoreWrites(h) <= MapInserts(h)
          /\ h \notin Recognized => Extractions(h) = 0
    /\ ReturnedOk =>
          \A h \in Recognized :
              Extractions(h) = 1 /\ MapInserts(h) = 1 /\ StoreWrites(h) = 1

\* A call over two recognized files returned Err: one was extracted,
\* inserted and written once, the other never written.
C26_Witness ==
    /\ Returned
    /\ ~ret[1].ok
    /\ ~MissingHandle
    /\ \E h \in Recognized : Extractions(h) = 1 /\ MapInserts(h) = 1 /\ StoreWrites(h) = 1
    /\ \E h \in Recognized : StoreWrites(h) = 0

\* C27: a call of traverse_and_analyze that has been made returns, Ok or
\* Err, on every tree and for every pool size from one worker on, when the
\* threads keep running and every extractor call returns.
C27_CallTerminates == (pc[root_id] = "start") ~> (ret # None)

\* A pool of one worker returned from a call over a file two directories
\* down: the directory's join ran inside the only worker.
C27_Witness ==
    /\ Returned
    /\ poolSize = 1
    /\ \E h \in Recognized :
          /\ tree0[h + 1].depth = 2
          /\ pc[h] \in {"ok", "err"}
          /\ Extractions(h) = 1

\* get_results(node_id): the entry of the map, empty when there is none.
GetResults(h) == IF h \in DOMAIN results THEN results[h] ELSE <<>>

ReturnedErr == ret # None /\ ~ret[1].ok

\* The map entry h's task inserted is h's own and can be read back.
EntryVisible(h) ==
    /\ h \in DOMAIN results
    /\ Len(GetResults(h)) = Len(OwnMetrics(h).classes)
    /\ \A i \in DOMAIN GetResults(h) :
          GetResults(h)[i].class_metrics = OwnMetrics(h).classes[i]
    /\ SeqRange(GetResults(h)) \subseteq AllResults(results)

\* The node h's task wrote holds h's own metrics and the results inserted.
WriteVisible(h) ==
    /\ nodes[h + 1].file_metrics = Some(OwnMetrics(h))
    /\ nodes[h + 1].analysis_results = GetResults(h)

\* C28: once traverse_and_analyze has returned Err, no task is left half
\* way (each one dispatched ran to its Ok or to its own Err), and every map
\* entry and every store write a task completed is still there to read from
\* get_results, all_results and the store.
C28_SiblingsKeptOnError ==
    ReturnedErr =>
        /\ \A h \in Handles : pc[h] \notin Running \cup {"pending", "join", "start"}
        /\ \A h \in Recognized :
              /\ MapInserts(h) = 1 => EntryVisible(h)
              /\ StoreWrites(h) = 1 => WriteVisible(h) /\ pc[h] = "ok"

\* The call returned Err from a directory in which one file failed and
\* another was analysed and published.
C28_Witness ==
    /\ ReturnedErr
    /\ \E h \in Recognized : \E s \in Handles :
          /\ s # h
          /\ joinOf[s] = joinOf[h]
          /\ pc[s] = "err"
          /\ pc[h] = "ok"
          /\ StoreWrites(h) = 1
          /\ EntryVisible(h)
          /\ WriteVisible(h)

\* The locks a worker holds.
HoldsStoreLock(w) == storeWriter = w \/ w \in storeReaders
HoldsMapLock(w) == mapLock = w

\* C29: a worker inside the extractor call holds neither the store's lock
\* nor the result map's, and a worker holds the store's write lock only
\* after its extraction has returned, while it writes the finished node.
C29_NoLockWhileExtracting ==
    \A w \in Workers :
        /\ wpc[w] = "parse" => ~HoldsStoreLock(w) /\ ~HoldsMapLock(w)
        /\ storeWriter = w =>
              /\ wpc[w] = "update"
              /\ wlocal[w].file_metrics # None
              /\ wlocal[w].updated_node # None

\* One worker is inside the extractor while another holds the store's
\* write lock to publish its node.
C29_Witness ==
    \E w, u \in Workers :
        /\ w # u
        /\ wpc[w] = "parse"
        /\ storeWriter = u
        /\ wpc[u] = "update"

\* all_results(): the values of the map's entries one after the other, in
\* the order the map iterates its keys.
all_results(map, order) == Flatten([i \in DOMAIN order |-> map[order[i]]])

\* How often a result occurs in the per-file sequences of the map.
OccurrencesPerFile(r) ==
    Cardinality(UNION {{<<h, i>> : i \in {j \in DOMAIN results[h] : results[h][j] = r}} :
                        h \in DOMAIN results})

\* C30: when the call has returned Ok, get_results of every recognized file
\* is the analysis_results of its node, one result a class of the node's
\* file_metrics; no other node has an entry; and all_results holds the
\* results of the per-file sequences, each as often as they do, whatever
\* order the map iterates in.
C30_MapAndStoreAgree ==
    ReturnedOk =>
        /\ \A h \in Recognized :
              /\ h \in DOMAIN results
              /\ GetResults(h) = nodes[h + 1].analysis_results
              /\ nodes[h + 1].file_metrics # None
              /\ Len(GetResults(h)) = Len(nodes[h + 1].file_metrics[1].classes)
              /\ \A i \in DOMAIN GetResults(h) :
                    GetResults(h)[i].class_metrics
                        = nodes[h + 1].file_metrics[1].classes[i]
        /\ \A h \in Handles \ Recognized :
              /\ h \notin DOMAIN results
              /\ GetResults(h) = <<>>
        /\ \A order \in Perms(DOMAIN results) :
              /\ SeqRange(all_results(results, order)) = AllResults(results)
              /\ \A r \in AllResults(results) :
                    Occurrences(all_results(results, order), r) = OccurrencesPerFile(r)

\* The call returned Ok over a directory holding a file that was analysed
\* into two results and a file of no recognized language.
C30_Witness ==
    /\ ReturnedOk
    /\ \E h \in Recognized : Len(GetResults(h)) = 2
    /\ \E g \in FileNodes \ Recognized : g \notin DOMAIN results
    /\ Cardinality(AllResults(results)) = 2

====
